---- MODULE Spec2Model ----
(***************************************************************************)
(* Deployment orchestrator (deploy-models.py) and ensemble strategy engine *)
(* (test-threat-detection.py) of the threat-modeling platform's ai-ml      *)
(* service.                                                                *)
(*                                                                         *)
(* Conventions.  A JSON object (Python dict) is a TLA+ record, a JSON      *)
(* array (Python list) a sequence.  A value that may be "any JSON" is      *)
(* wrapped as [kind |-> "object", obj |-> r], [kind |-> "array"] or        *)
(* [kind |-> "unparsable"], and [kind |-> "none"] is Python's unset/None.  *)
(* Floating-point configuration values are written as scaled integers     *)
(* (weights in tenths, ratios in hundredths).  The wall-clock stamps       *)
(* written by datetime.now().isoformat() carry no data or control          *)
(* dependence and are left out of the records; the one value derived from  *)
(* the clock that the program uses, int(time.time()) in the deployment id, *)
(* is modelled by the variable now.                                        *)
(*                                                                         *)
(* Six specifications.  Spec is one run of main of deploy-models.py.       *)
(* SpecEngine is the ensemble engine with its models loaded, called with   *)
(* one of its three strategies; SpecEvaluation adds the per-model test and *)
(* the load test; SpecWeighted is the weighted average over every name of  *)
(* its weights table.  SpecAttempts is two runs of main side by side at    *)
(* the step that builds the serving configuration, on one clock;           *)
(* SpecWriters is two runs writing a file of one experiment directory,     *)
(* a text being the lines json.dump writes and a run's write one flush.    *)
(*                                                                         *)
(* The registry document is kept twice: registryDoc is the payload handed  *)
(* to json.dump, registryText the document json.dump wrote, over Python    *)
(* objects that carry their type (json_dump, json_load).  The engine's     *)
(* scores are exact fractions; the code computes them in doubles.          *)
(***************************************************************************)
EXTENDS Integers, Sequences, FiniteSets, TLC

\* Largest value of the Unix clock in a run.
MaxTime == 1

\* Largest number of models the engine has loaded.
MaxModels == 3

\* Largest number of samples in X_test.
MaxSamples == 1

\* Largest number of models loaded when the engine is run through its evaluations.
MaxTestedModels == 2

----------------------------------------------------------------------------
(* Dictionaries *)

EmptyDict == [k \in {} |-> TRUE]

NoneVal == [kind |-> "none"]

\* dict.get(k, default)
Get(d, k, default) == IF k \in DOMAIN d THEN d[k] ELSE default

\* d[k] = v
Put(d, k, v) == [f \in DOMAIN d \cup {k} |-> IF f = k THEN v ELSE d[f]]

JsonObject(r) == [kind |-> "object", obj |-> r]

JsonArray == [kind |-> "array"]

Unparsable == [kind |-> "unparsable"]

----------------------------------------------------------------------------
(* Fixed tables of deploy-models.py *)

model_names ==
  <<"signature_detector", "anomaly_detector", "ensemble_rf", "ensemble_lr", "ensemble_svm">>

required_files ==
  <<"models.joblib", "preprocessors.joblib", "metadata.json", "deployment_config.json">>

mlops_base_url == "http://localhost:3007"

ModelsDir == "./models/"

InitialTrainingId == "initial-training-20250614"

\* f"{model_name}_v2.0.0.joblib"
ModelFile(name) == name \o "_v2.0.0.joblib"

PreprocessorsFile == ModelFile("preprocessors")

\* Range of a sequence
Range(s) == {s[i] : i \in 1..Len(s)}

RECURSIVE SumOver(_, _)
\* sum of f[x] over x in S
SumOver(S, f) ==
  IF S = {} THEN 0
  ELSE LET x == CHOOSE y \in S : TRUE IN f[x] + SumOver(S \ {x}, f)

\* Stems of the files the models directory may hold that match *_v2.0.0.joblib
GlobStems == Range(model_names) \cup {"preprocessors", "custom_model"}

\* self.models_dir.glob("*_v2.0.0.joblib")
Glob(files) == {f \in files : \E n \in GlobStems : f = ModelFile(n)}

----------------------------------------------------------------------------
(* The environment of a run: arguments, file system, library, network *)

ExperimentIds == {InitialTrainingId, "exp-b"}

\* Contents of the models directory in the runs explored
ModelStemChoices ==
  { {},
    {"signature_detector"},
    {"ensemble_lr", "ensemble_svm"},
    {"signature_detector", "anomaly_detector", "ensemble_rf"},
    {"anomaly_detector", "ensemble_rf", "custom_model"} }

ModelsDirChoices ==
  { {ModelFile(n) : n \in stems} \cup extra :
      stems \in ModelStemChoices, extra \in {{"README.md"}, {PreprocessorsFile}} }

\* Contents of metadata.json in the runs explored
MetadataChoices ==
  { JsonObject([experiment_id |-> "e",
                evaluation_results |->
                  [signature_detector |-> [accuracy |-> 95],
                   ensemble_rf |-> [accuracy |-> 97, f1_score |-> 96]]]),
    JsonObject([experiment_id |-> "e"]),
    Unparsable }

\* Outcomes of requests.post / requests.get
Timeout == [outcome |-> "timeout"]

ConnectionError == [outcome |-> "connection_error"]

Http(code, body) == [outcome |-> "http", status_code |-> code, body |-> body]

VARIABLES
  experiment_id,      \* args.experiment_id
  skip_tests,         \* args.skip_tests
  expFiles,           \* names of the files in experiments_dir/experiment_id at start
  modelFiles,         \* names of the files in models_dir
  metadataDoc,        \* content of metadata.json
  otherModelsFile,    \* experiments_dir/initial-training-20250614/models.joblib exists
                      \* (when that is not the experiment being deployed)
  fsWritable,         \* open(..., 'w') in the experiment directory succeeds
  jsonErrorCaught,    \* the installed requests raises a RequestException subclass
                      \* from response.json() (requests >= 2.27) or a plain ValueError
  now,                \* int(time.time())
  pc,                 \* position of main
  metadata,           \* main's locals
  validation_results,
  registry_info,
  serving_config,
  deployment_result,
  test_results,
  deployment_summary,
  exitCode,           \* main's return value, -1 while running
  raisedIn,           \* the stage whose exception main's handler caught, "" if none
  registryDoc,        \* the payload this run wrote to model_registry_deployment.json
  registryText,       \* the JSON document json.dump made of it
  summaryDoc,         \* deployment_summary.json as written by this run
  regPosts,           \* number of registry POSTs issued
  deployPosts,        \* number of deploy POSTs issued
  healthGets,         \* health GETs issued, in order: [url, response]
  regResponse,        \* the answer the registry POST got
  deployResponse,     \* the answer the deploy POST got
  self_models,        \* ThreatDetectionTester.models: name -> the model's outputs on X_test
  n_samples,          \* len(X_test)
  ensemble_out,       \* what the strategy last called returned
  eval_out,           \* what the evaluation last called returned
  attempts,           \* runs of main started side by side: attempt -> its state
  dirFiles            \* the files those runs write in the experiment directory:
                      \* name -> text

env == <<experiment_id, skip_tests, expFiles, modelFiles, metadataDoc, otherModelsFile,
         fsWritable, jsonErrorCaught>>

locals == <<metadata, validation_results, registry_info, serving_config,
            deployment_result, test_results, deployment_summary>>

files == <<registryDoc, registryText, summaryDoc>>

network == <<regPosts, deployPosts, healthGets, regResponse, deployResponse>>

driver == <<env, now, pc, locals, exitCode, raisedIn, files, network>>

engine == <<self_models, n_samples, ensemble_out, eval_out>>

runs == <<attempts, dirFiles>>

vars == <<driver, engine, runs>>

----------------------------------------------------------------------------
(* Results of a stage: a returned value or a raised exception *)

Return(v) == [raised |-> FALSE, error |-> "", value |-> v]

Raise(e) == [raised |-> TRUE, error |-> e, value |-> NoneVal]

----------------------------------------------------------------------------
(* load_experiment_metadata *)

load_experiment_metadata(efiles, doc) ==
  IF "metadata.json" \notin efiles THEN Raise("FileNotFoundError")
  ELSE IF doc.kind = "unparsable" THEN Raise("JSONDecodeError")
  ELSE Return(doc.obj)

----------------------------------------------------------------------------
(* validate_models *)

\* validate_models changed to record only the files it finds
validate_models_present_only(efiles, mfiles) ==
  [f \in (Range(required_files) \cap efiles) \cup Glob(mfiles) |-> TRUE]

validate_models(efiles, mfiles) ==
  [f \in Range(required_files) \cup Glob(mfiles) |->
     IF f \in Glob(mfiles) THEN TRUE ELSE f \in efiles]

\* all() of line 465 changed to any()
AnyValid(results) == \E f \in DOMAIN results : results[f]

\* all(validation_results.values())
AllValid(results) == \A f \in DOMAIN results : results[f]

----------------------------------------------------------------------------
(* Python objects and their JSON documents: json.dump(..., default=str), json.load *)

\* Python objects, by type
PyStr(s) == [type |-> "str", val |-> s]

PyFloat(x) == [type |-> "float", val |-> x]

PyList(seq) == [type |-> "list", val |-> seq]

PyDict(d) == [type |-> "dict", val |-> d]

PyInt(n) == [type |-> "int", val |-> n]

PyBool(b) == [type |-> "bool", val |-> b]

\* a pathlib.Path; val is str(path)
PyPath(s) == [type |-> "Path", val |-> s]

\* datetime.now().isoformat(): a str (the instant itself is not modelled)
isoformat_now == PyStr("isoformat")

RECURSIVE json_dump(_)
\* The JSON document json.dump writes for a Python object: a dict as an object, a list
\* as an array, a str as a string, a float as a number with a fraction part, an int as
\* an integer, a bool as true or false; an object of any other type goes through
\* default=str and is written as the string str(obj).
json_dump(v) ==
  IF v.type = "dict"
    THEN [json |-> "object", val |-> [k \in DOMAIN v.val |-> json_dump(v.val[k])]]
  ELSE IF v.type = "list"
    THEN [json |-> "array", val |-> [i \in 1..Len(v.val) |-> json_dump(v.val[i])]]
  ELSE IF v.type = "float"
    THEN [json |-> "number", val |-> v.val]
  ELSE IF v.type = "int"
    THEN [json |-> "integer", val |-> v.val]
  ELSE IF v.type = "bool"
    THEN [json |-> "boolean", val |-> v.val]
  ELSE [json |-> "string", val |-> v.val]

RECURSIVE json_load(_)
\* The Python object json.load reads from a JSON document
json_load(j) ==
  IF j.json = "object"
    THEN PyDict([k \in DOMAIN j.val |-> json_load(j.val[k])])
  ELSE IF j.json = "array"
    THEN PyList([i \in 1..Len(j.val) |-> json_load(j.val[i])])
  ELSE IF j.json = "number"
    THEN PyFloat(j.val)
  ELSE IF j.json = "integer"
    THEN PyInt(j.val)
  ELSE IF j.json = "boolean"
    THEN PyBool(j.val)
  ELSE PyStr(j.val)

RECURSIVE json_line_count(_)
\* The number of lines json.dump(..., indent=2) writes for a document: an empty object
\* or array and a scalar take one line, a non-empty object or array takes its opening
\* and closing lines and the lines of its members
json_line_count(j) ==
  IF j.json \in {"object", "array"}
    THEN IF DOMAIN j.val = {} THEN 1
         ELSE 2 + SumOver(DOMAIN j.val, [k \in DOMAIN j.val |-> json_line_count(j.val[k])])
    ELSE 1

\* The text json.dump(..., indent=2) writes for a document, line by line
json_text(j) == [i \in 1..json_line_count(j) |-> [doc |-> j, line |-> i]]

----------------------------------------------------------------------------
(* register_models_with_registry *)

model_info(model_name, evaluation_results) ==
  [name |-> model_name,
   version |-> "2.0.0",
   type |-> "threat_detection",
   framework |-> "scikit-learn",
   file_path |-> ModelsDir \o ModelFile(model_name),
   stage |-> "staging",
   performance_metrics |-> Get(evaluation_results, model_name, EmptyDict),
   description |-> "Advanced threat detection model: " \o model_name]

\* Every catalog model listed, its file on disk or not
registry_payload_whole_catalog(eid, md, mfiles) ==
  LET evaluation_results == Get(md, "evaluation_results", EmptyDict)
      base == [experiment_id |-> eid,
               models |-> [i \in 1..Len(model_names) |->
                             model_info(model_names[i], evaluation_results)]]
  IN  IF PreprocessorsFile \in mfiles
        THEN Put(base, "preprocessors",
                 [version |-> "2.0.0", file_path |-> ModelsDir \o PreprocessorsFile])
        ELSE base

\* Lines 88-125
registry_payload(eid, md, mfiles) ==
  LET evaluation_results == Get(md, "evaluation_results", EmptyDict)
      present == SelectSeq(model_names, LAMBDA n : ModelFile(n) \in mfiles)
      base == [experiment_id |-> eid,
               models |-> [i \in 1..Len(present) |-> model_info(present[i], evaluation_results)]]
  IN  IF PreprocessorsFile \in mfiles
        THEN Put(base, "preprocessors",
                 [version |-> "2.0.0", file_path |-> ModelsDir \o PreprocessorsFile])
        ELSE base

\* model_file kept as a Path in the entry (str() left out)
py_model_info_with_path(info) ==
  PyDict([name |-> PyStr(info.name),
          version |-> PyStr(info.version),
          type |-> PyStr(info.type),
          framework |-> PyStr(info.framework),
          file_path |-> PyPath(info.file_path),
          stage |-> PyStr(info.stage),
          performance_metrics |->
            PyDict([k \in DOMAIN info.performance_metrics |->
                      PyFloat(info.performance_metrics[k])]),
          created_at |-> isoformat_now,
          description |-> PyStr(info.description)])

\* Lines 104-114: the Python object model_info, each value with its type
py_model_info(info) ==
  PyDict([name |-> PyStr(info.name),
          version |-> PyStr(info.version),
          type |-> PyStr(info.type),
          framework |-> PyStr(info.framework),
          file_path |-> PyStr(info.file_path),
          stage |-> PyStr(info.stage),
          performance_metrics |->
            PyDict([k \in DOMAIN info.performance_metrics |->
                      PyFloat(info.performance_metrics[k])]),
          created_at |-> isoformat_now,
          description |-> PyStr(info.description)])

\* Lines 88-125: the Python object registry_payload, each value with its type
py_registry_payload(payload) ==
  LET base == [experiment_id |-> PyStr(payload.experiment_id),
               models |-> PyList([i \in 1..Len(payload.models) |->
                                    py_model_info(payload.models[i])]),
               timestamp |-> isoformat_now]
  IN  PyDict(IF "preprocessors" \in DOMAIN payload
               THEN Put(base, "preprocessors",
                        PyDict([version |-> PyStr(payload.preprocessors.version),
                                file_path |-> PyStr(payload.preprocessors.file_path),
                                created_at |-> isoformat_now]))
               ELSE base)

\* Answers of the registry to the POST of payload
RegistryResponses(payload) ==
  { Timeout, ConnectionError,
    Http(500, JsonObject([error |-> "internal error"])),
    Http(200, JsonObject(payload)),
    Http(200, JsonObject([status |-> "registered"])),
    Http(200, JsonArray),
    Http(200, Unparsable) }

\* The fallback changed to re-raise the connection failure
register_fallback_raises(payload, writable) ==
  Raise("ConnectionError") @@ [wrote |-> FALSE]

\* Lines 144-152: the local fallback. wrote: the registry document was written.
register_fallback(payload, writable) ==
  IF writable
    THEN Return(JsonObject(payload)) @@ [wrote |-> TRUE]
    ELSE Raise("OSError") @@ [wrote |-> FALSE]

\* Register changed to take any HTTP answer for a success (status code not looked at)
register_ignoring_status(eid, md, mfiles, resp, jsonCaught, writable) ==
  LET payload == registry_payload(eid, md, mfiles)
  IN  IF resp.outcome = "http"
        THEN IF resp.body.kind # "unparsable"
               THEN Return(resp.body) @@ [wrote |-> FALSE]
               ELSE IF jsonCaught
                      THEN register_fallback(payload, writable)
                      ELSE Raise("JSONDecodeError") @@ [wrote |-> FALSE]
        ELSE register_fallback(payload, writable)

\* The result of Register given the registry's answer resp to its POST.
register_models_with_registry(eid, md, mfiles, resp, jsonCaught, writable) ==
  LET payload == registry_payload(eid, md, mfiles)
  IN  IF resp.outcome = "http"
        THEN IF resp.status_code = 200
               THEN IF resp.body.kind # "unparsable"
                      THEN Return(resp.body) @@ [wrote |-> FALSE]
                      ELSE IF jsonCaught
                             THEN register_fallback(payload, writable)
                             ELSE Raise("JSONDecodeError") @@ [wrote |-> FALSE]
               ELSE register_fallback(payload, writable)
        ELSE register_fallback(payload, writable)

----------------------------------------------------------------------------
(* create_model_serving_config *)

ensemble_weights ==
  [signature_detector |-> 3, anomaly_detector |-> 2, ensemble_rf |-> 5]

model_config(info) ==
  [name |-> info.name,
   version |-> info.version,
   file_path |-> info.file_path,
   endpoint |-> "/predict/" \o info.name,
   health_endpoint |-> "/health/" \o info.name,
   performance_metrics |-> Get(info, "performance_metrics", EmptyDict),
   resource_requirements |-> [cpu |-> "500m", memory |-> "1Gi", gpu |-> 0]]

deployment_id(eid, t) == "deploy-" \o eid \o "-" \o ToString(t)

create_model_serving_config(eid, info, t) ==
  IF info.kind # "object" THEN Raise("AttributeError")
  ELSE
    LET infos == Get(info.obj, "models", <<>>)
    IN  IF \E i \in 1..Len(infos) : ~({"name", "version", "file_path"} \subseteq DOMAIN infos[i])
          THEN Raise("KeyError")
          ELSE Return(
            [service_name |-> "threat-detection-models",
             version |-> "2.0.0",
             deployment_id |-> deployment_id(eid, t),
             models |-> [i \in 1..Len(infos) |-> model_config(infos[i])],
             ensemble_config |->
               [enabled |-> TRUE,
                voting_strategy |-> "weighted_average",
                weights |-> ensemble_weights],
             serving_config |->
               [batch_size |-> 32,
                timeout_ms |-> 5000,
                max_concurrent_requests |-> 100,
                health_check_interval |-> 30,
                auto_scaling |->
                  [enabled |-> TRUE, min_replicas |-> 1, max_replicas |-> 5,
                   target_cpu_percent |-> 70, target_memory_percent |-> 80]],
             monitoring |->
               [enabled |-> TRUE,
                metrics |-> <<"prediction_latency", "prediction_accuracy", "model_drift",
                              "data_drift", "resource_usage">>,
                alerting |->
                  [accuracy_threshold |-> 80, latency_threshold_ms |-> 1000,
                   error_rate_threshold |-> 5, drift_threshold |-> 10]],
             security |->
               [authentication_required |-> TRUE,
                rate_limiting |-> [requests_per_minute |-> 1000, burst_size |-> 100],
                input_validation |-> TRUE,
                output_sanitization |-> TRUE]])

----------------------------------------------------------------------------
(* deploy_to_serving_infrastructure *)

DeployResponses ==
  { Timeout, ConnectionError,
    Http(500, JsonObject([error |-> "internal error"])),
    Http(200, JsonObject([status |-> "ok"])),
    Http(200, Unparsable) }

manual_instructions ==
  <<"1. Copy model files to serving infrastructure",
    "2. Load models using the provided configuration",
    "3. Start serving endpoints",
    "4. Configure monitoring and alerting",
    "5. Run health checks">>

endpoint_info(model) ==
  [model |-> model.name,
   endpoint |-> mlops_base_url \o model.endpoint,
   health_endpoint |-> mlops_base_url \o model.health_endpoint]

\* Lines 259-266
deployed_endpoints(cfg) == [i \in 1..Len(cfg.models) |-> endpoint_info(cfg.models[i])]

\* Lines 289-296
reference_endpoints(cfg) == [i \in 1..Len(cfg.models) |-> endpoint_info(cfg.models[i])]

\* The fallback changed to leave out the reference endpoints (lines 289-296 dropped)
deploy_fallback_no_endpoints(result, cfg) ==
  [result EXCEPT !.status = "configuration_ready"]
  @@ [manual_deployment |->
        [instructions |-> manual_instructions,
         model_files |-> [i \in 1..Len(cfg.models) |-> cfg.models[i].file_path],
         config_file |-> cfg]]

\* Lines 273-298: the manual-deployment fallback, applied to the result built so far
deploy_fallback(result, cfg) ==
  [result EXCEPT !.status = "configuration_ready",
                 !.endpoints = @ \o reference_endpoints(cfg)]
  @@ [manual_deployment |->
        [instructions |-> manual_instructions,
         model_files |-> [i \in 1..Len(cfg.models) |-> cfg.models[i].file_path],
         config_file |-> cfg]]

\* The result of Deploy given the serving API's answer resp to its POST.
deploy_to_serving_infrastructure(cfg, resp, jsonCaught) ==
  LET pending == [deployment_id |-> cfg.deployment_id,
                  status |-> "pending",
                  endpoints |-> <<>>,
                  health_checks |-> <<>>]
  IN  IF resp.outcome = "http"
        THEN IF resp.status_code = 200
               THEN LET deployed == [pending EXCEPT !.status = "deployed"]
                    IN  IF resp.body.kind = "unparsable"
                          THEN IF jsonCaught
                                 THEN Return(deploy_fallback(deployed, cfg))
                                 ELSE Raise("JSONDecodeError")
                          ELSE Return([deployed EXCEPT !.endpoints = @ \o deployed_endpoints(cfg)]
                                      @@ [api_response |-> resp.body])
               ELSE Return(deploy_fallback(pending, cfg))
        ELSE Return(deploy_fallback(pending, cfg))

----------------------------------------------------------------------------
(* run_deployment_tests *)

\* Outcomes of joblib.load of an existing file
LoadOutcomes == { [ok |-> TRUE, len |-> 0], [ok |-> TRUE, len |-> 5], [ok |-> FALSE, len |-> 0] }

\* Answers to a health GET
HealthResponses == { Http(200, Unparsable), Http(503, Unparsable), ConnectionError }

NoResponse == [outcome |-> "none"]

test_entry(name, status, details) == [test |-> name, status |-> status, details |-> details]

\* Lines 309-333
model_loading_test(modelsExists, load) ==
  IF modelsExists
    THEN IF load.ok
           THEN test_entry("model_loading", "passed",
                           "Successfully loaded " \o ToString(load.len) \o " models")
           ELSE test_entry("model_loading", "failed", "Error loading models")
    ELSE test_entry("model_loading", "failed", "Model file not found")

\* Lines 335-359
preprocessor_loading_test(mfiles, load) ==
  IF PreprocessorsFile \in mfiles
    THEN IF load.ok
           THEN test_entry("preprocessor_loading", "passed", "Successfully loaded preprocessors")
           ELSE test_entry("preprocessor_loading", "failed", "Error loading preprocessors")
    ELSE test_entry("preprocessor_loading", "failed", "Preprocessor file not found")

\* Lines 364-389
endpoint_health_test(info, resp) ==
  IF resp.outcome = "http"
    THEN IF resp.status_code = 200
           THEN test_entry("endpoint_health_" \o info.model, "passed",
                           "Endpoint responding: " \o info.health_endpoint)
           ELSE test_entry("endpoint_health_" \o info.model, "failed",
                           "Endpoint not responding: " \o info.health_endpoint)
    ELSE test_entry("endpoint_health_" \o info.model, "failed", "Connection error")

\* Every test counted as passed
test_summary_counting_all(tests) ==
  [total_tests |-> Len(tests),
   passed |-> Len(tests),
   failed |-> 0,
   success_rate |-> IF Len(tests) > 0
                      THEN [num |-> Len(tests), den |-> Len(tests)]
                      ELSE [num |-> 0, den |-> 1]]

\* Lines 391-399. success_rate is the fraction num/den.
test_summary(tests) ==
  LET passed_tests == Cardinality({i \in 1..Len(tests) : tests[i].status = "passed"})
      total_tests == Len(tests)
  IN  [total_tests |-> total_tests,
       passed |-> passed_tests,
       failed |-> total_tests - passed_tests,
       success_rate |-> IF total_tests > 0
                          THEN [num |-> passed_tests, den |-> total_tests]
                          ELSE [num |-> 0, den |-> 1]]

\* The health endpoints requested whatever the status
health_targets_any_status(result) == Get(result, "endpoints", <<>>)

\* Every health endpoint requested a second time
health_targets_retried(result) ==
  IF Get(result, "status", "") = "deployed"
    THEN Get(result, "endpoints", <<>>) \o Get(result, "endpoints", <<>>)
    ELSE <<>>

\* The health endpoints the harness requests: lines 362-363
health_targets(result) ==
  IF Get(result, "status", "") = "deployed" THEN Get(result, "endpoints", <<>>) ELSE <<>>

run_deployment_tests(result, modelsExists, mfiles, loadModels, loadPre, health) ==
  LET targets == health_targets(result)
      tests == <<model_loading_test(modelsExists, loadModels),
                 preprocessor_loading_test(mfiles, loadPre)>>
               \o [i \in 1..Len(targets) |-> endpoint_health_test(targets[i], health[i])]
  IN  [tests |-> tests, summary |-> test_summary(tests)]

----------------------------------------------------------------------------
(* save_deployment_summary *)

deployed_next_steps ==
  <<"Monitor model performance via MLOps dashboard",
    "Set up automated retraining pipelines",
    "Configure A/B testing for model improvements",
    "Review and update monitoring thresholds">>

\* Line 415: the list the summary is created with
next_steps_unset == <<>>

manual_next_steps ==
  <<"Set up MLOps serving infrastructure",
    "Deploy models using provided configuration",
    "Configure monitoring and alerting",
    "Run deployment validation tests">>

\* The summary written without the harness's report
deployment_summary_without_report(eid, result, tests) ==
  [experiment_id |-> eid,
   deployment_result |-> result,
   test_results |-> [skipped |-> TRUE],
   status |-> IF Get(result, "status", "") = "deployed" THEN "deployed" ELSE "ready_for_deployment",
   next_steps |-> IF Get(result, "status", "") = "deployed"
                    THEN deployed_next_steps ELSE manual_next_steps]

\* The summary writer changed to restate the result's status as the summary's
deployment_summary_restating_result(eid, result, tests) ==
  LET status == IF Get(result, "status", "") = "deployed"
                  THEN "deployed" ELSE "ready_for_deployment"
  IN  [experiment_id |-> eid,
       deployment_result |-> [result EXCEPT !.status = status],
       test_results |-> tests,
       status |-> status,
       next_steps |-> IF status = "deployed" THEN deployed_next_steps ELSE manual_next_steps]

\* Lines 408-431
deployment_summary_of(eid, result, tests) ==
  [experiment_id |-> eid,
   deployment_result |-> result,
   test_results |-> tests,
   status |-> IF Get(result, "status", "") = "deployed" THEN "deployed" ELSE "ready_for_deployment",
   next_steps |-> IF Get(result, "status", "") = "deployed"
                    THEN deployed_next_steps ELSE manual_next_steps]

save_deployment_summary(eid, result, tests, writable) ==
  IF writable THEN Return(deployment_summary_of(eid, result, tests)) ELSE Raise("OSError")

----------------------------------------------------------------------------
(* The Python objects save_deployment_summary dumps, each value with its type *)

PyStrings(seq) == PyList([i \in 1..Len(seq) |-> PyStr(seq[i])])

PyFloats(d) == PyDict([k \in DOMAIN d |-> PyFloat(d[k])])

\* Lines 259-263, 290-294
py_endpoint_info(e) ==
  PyDict([model |-> PyStr(e.model),
          endpoint |-> PyStr(e.endpoint),
          health_endpoint |-> PyStr(e.health_endpoint)])

\* Lines 210-224
py_model_config(m) ==
  PyDict([name |-> PyStr(m.name),
          version |-> PyStr(m.version),
          file_path |-> PyStr(m.file_path),
          endpoint |-> PyStr(m.endpoint),
          health_endpoint |-> PyStr(m.health_endpoint),
          performance_metrics |-> PyFloats(m.performance_metrics),
          resource_requirements |->
            PyDict([cpu |-> PyStr(m.resource_requirements.cpu),
                    memory |-> PyStr(m.resource_requirements.memory),
                    gpu |-> PyInt(m.resource_requirements.gpu)])])

\* Lines 158-208
py_serving_config(cfg) ==
  PyDict([service_name |-> PyStr(cfg.service_name),
          version |-> PyStr(cfg.version),
          deployment_id |-> PyStr(cfg.deployment_id),
          models |-> PyList([i \in 1..Len(cfg.models) |-> py_model_config(cfg.models[i])]),
          ensemble_config |->
            PyDict([enabled |-> PyBool(cfg.ensemble_config.enabled),
                    voting_strategy |-> PyStr(cfg.ensemble_config.voting_strategy),
                    weights |-> PyFloats(cfg.ensemble_config.weights)]),
          serving_config |->
            PyDict([batch_size |-> PyInt(cfg.serving_config.batch_size),
                    timeout_ms |-> PyInt(cfg.serving_config.timeout_ms),
                    max_concurrent_requests |->
                      PyInt(cfg.serving_config.max_concurrent_requests),
                    health_check_interval |->
                      PyInt(cfg.serving_config.health_check_interval),
                    auto_scaling |->
                      LET a == cfg.serving_config.auto_scaling
                      IN  PyDict([enabled |-> PyBool(a.enabled),
                                  min_replicas |-> PyInt(a.min_replicas),
                                  max_replicas |-> PyInt(a.max_replicas),
                                  target_cpu_percent |-> PyInt(a.target_cpu_percent),
                                  target_memory_percent |->
                                    PyInt(a.target_memory_percent)])]),
          monitoring |->
            PyDict([enabled |-> PyBool(cfg.monitoring.enabled),
                    metrics |-> PyStrings(cfg.monitoring.metrics),
                    alerting |->
                      LET a == cfg.monitoring.alerting
                      IN  PyDict([accuracy_threshold |-> PyFloat(a.accuracy_threshold),
                                  latency_threshold_ms |-> PyInt(a.latency_threshold_ms),
                                  error_rate_threshold |->
                                    PyFloat(a.error_rate_threshold),
                                  drift_threshold |-> PyFloat(a.drift_threshold)])]),
          security |->
            PyDict([authentication_required |->
                      PyBool(cfg.security.authentication_required),
                    rate_limiting |->
                      PyDict([requests_per_minute |->
                                PyInt(cfg.security.rate_limiting.requests_per_minute),
                              burst_size |->
                                PyInt(cfg.security.rate_limiting.burst_size)]),
                    input_validation |-> PyBool(cfg.security.input_validation),
                    output_sanitization |-> PyBool(cfg.security.output_sanitization)])])

\* Lines 235-296: deployment_result; api_response is the body of the serving API's
\* answer, an object of strings
py_deployment_result(result) ==
  LET base == [deployment_id |-> PyStr(result.deployment_id),
               status |-> PyStr(result.status),
               timestamp |-> isoformat_now,
               endpoints |-> PyList([i \in 1..Len(result.endpoints) |->
                                       py_endpoint_info(result.endpoints[i])]),
               health_checks |-> PyList(<<>>)]
      answered ==
        IF "api_response" \in DOMAIN result
          THEN Put(base, "api_response",
                   PyDict([k \in DOMAIN result.api_response.obj |->
                             PyStr(result.api_response.obj[k])]))
          ELSE base
  IN  PyDict(IF "manual_deployment" \in DOMAIN result
               THEN Put(answered, "manual_deployment",
                        PyDict([instructions |->
                                  PyStrings(result.manual_deployment.instructions),
                                model_files |->
                                  PyStrings(result.manual_deployment.model_files),
                                config_file |->
                                  py_serving_config(result.manual_deployment.config_file)]))
               ELSE answered)

\* Lines 317-389
py_test_entry(t) ==
  PyDict([test |-> PyStr(t.test), status |-> PyStr(t.status), details |-> PyStr(t.details)])

\* Lines 304-307, 391-399 and main's line 482
py_test_results(tests) ==
  IF "skipped" \in DOMAIN tests
    THEN PyDict([skipped |-> PyBool(tests.skipped), timestamp |-> isoformat_now])
    ELSE PyDict([timestamp |-> isoformat_now,
                 tests |-> PyList([i \in 1..Len(tests.tests) |->
                                     py_test_entry(tests.tests[i])]),
                 summary |->
                   PyDict([total_tests |-> PyInt(tests.summary.total_tests),
                           passed |-> PyInt(tests.summary.passed),
                           failed |-> PyInt(tests.summary.failed),
                           success_rate |->
                             IF tests.summary.total_tests > 0
                               THEN PyFloat(tests.summary.success_rate)
                               ELSE PyInt(0)])])

\* Lines 408-431: the Python object deployment_summary
py_deployment_summary(summary) ==
  PyDict([experiment_id |-> PyStr(summary.experiment_id),
          deployment_timestamp |-> isoformat_now,
          deployment_result |-> py_deployment_result(summary.deployment_result),
          test_results |-> py_test_results(summary.test_results),
          status |-> PyStr(summary.status),
          next_steps |-> PyStrings(summary.next_steps)])

----------------------------------------------------------------------------
(* main *)

Init ==
  /\ experiment_id \in ExperimentIds
  /\ skip_tests \in BOOLEAN
  /\ expFiles \in SUBSET Range(required_files)
  /\ modelFiles \in ModelsDirChoices
  /\ metadataDoc \in MetadataChoices
  /\ otherModelsFile \in IF experiment_id = InitialTrainingId THEN {FALSE} ELSE BOOLEAN
  /\ fsWritable \in BOOLEAN
  /\ jsonErrorCaught \in BOOLEAN
  /\ now = 0
  /\ pc = "load_metadata"
  /\ metadata = NoneVal
  /\ validation_results = EmptyDict
  /\ registry_info = NoneVal
  /\ serving_config = NoneVal
  /\ deployment_result = NoneVal
  /\ test_results = NoneVal
  /\ deployment_summary = NoneVal
  /\ exitCode = -1
  /\ raisedIn = ""
  /\ registryDoc = NoneVal
  /\ registryText = NoneVal
  /\ summaryDoc = NoneVal
  /\ regPosts = 0
  /\ deployPosts = 0
  /\ healthGets = <<>>
  /\ regResponse = NoResponse
  /\ deployResponse = NoResponse
  /\ self_models = EmptyDict
  /\ n_samples = 0
  /\ ensemble_out = [strategy |-> "none"]
  /\ eval_out = NoneVal
  /\ attempts = EmptyDict
  /\ dirFiles = EmptyDict

\* The handler changed to return 0
Fail_returning_zero(stage) ==
  /\ pc' = "done"
  /\ exitCode' = 0
  /\ raisedIn' = stage

\* Lines 520-522: main's handler
Fail(stage) ==
  /\ pc' = "done"
  /\ exitCode' = 1
  /\ raisedIn' = stage

Continue(next) ==
  /\ pc' = next
  /\ UNCHANGED <<exitCode, raisedIn>>

\* time passes
Tick ==
  /\ pc # "done"
  /\ now < MaxTime
  /\ now' = now + 1
  /\ UNCHANGED <<engine, runs, env, pc, locals, exitCode, raisedIn, files, network>>

\* Line 461
LoadMetadata ==
  /\ pc = "load_metadata"
  /\ LET r == load_experiment_metadata(expFiles, metadataDoc)
     IN  IF r.raised
           THEN Fail("load_experiment_metadata") /\ UNCHANGED metadata
           ELSE Continue("validate") /\ metadata' = r.value
  /\ UNCHANGED <<engine, runs, env, now, validation_results, registry_info, serving_config,
                 deployment_result, test_results, deployment_summary, files, network>>

\* Lines 464-467
ValidateModels ==
  /\ pc = "validate"
  /\ validation_results' = validate_models(expFiles, modelFiles)
  /\ IF ~AllValid(validation_results')
       THEN pc' = "done" /\ exitCode' = 1 /\ UNCHANGED raisedIn
       ELSE Continue("register")
  /\ UNCHANGED <<engine, runs, env, now, metadata, registry_info, serving_config,
                 deployment_result, test_results, deployment_summary, files, network>>

\* Line 470
Register ==
  /\ pc = "register"
  /\ \E resp \in RegistryResponses(registry_payload(experiment_id, metadata, modelFiles)) :
       LET r == register_models_with_registry(experiment_id, metadata, modelFiles, resp,
                                              jsonErrorCaught, fsWritable)
       IN  /\ regPosts' = regPosts + 1
           /\ regResponse' = resp
           /\ registryDoc' = IF r.wrote THEN r.value ELSE registryDoc
           /\ registryText' = IF r.wrote
                                THEN json_dump(py_registry_payload(r.value.obj))
                                ELSE registryText
           /\ IF r.raised
                THEN Fail("register_models_with_registry") /\ UNCHANGED registry_info
                ELSE Continue("synthesize") /\ registry_info' = r.value
  /\ UNCHANGED <<engine, runs, env, now, metadata, validation_results, serving_config, deployment_result,
                 test_results, deployment_summary, summaryDoc, deployPosts, healthGets,
                 deployResponse>>

\* Line 473
Synthesize ==
  /\ pc = "synthesize"
  /\ LET r == create_model_serving_config(experiment_id, registry_info, now)
     IN  IF r.raised
           THEN Fail("create_model_serving_config") /\ UNCHANGED serving_config
           ELSE Continue("deploy") /\ serving_config' = r.value
  /\ UNCHANGED <<engine, runs, env, now, metadata, validation_results, registry_info, deployment_result,
                 test_results, deployment_summary, files, network>>

\* Line 476
Deploy ==
  /\ pc = "deploy"
  /\ \E resp \in DeployResponses :
       LET r == deploy_to_serving_infrastructure(serving_config, resp, jsonErrorCaught)
       IN  /\ deployPosts' = deployPosts + 1
           /\ deployResponse' = resp
           /\ IF r.raised
                THEN Fail("deploy_to_serving_infrastructure") /\ UNCHANGED deployment_result
                ELSE Continue("tests") /\ deployment_result' = r.value
  /\ UNCHANGED <<engine, runs, env, now, metadata, validation_results, registry_info, serving_config,
                 test_results, deployment_summary, files, regPosts, healthGets, regResponse>>

\* experiments_dir / "initial-training-20250614" / "models.joblib" exists (lines 311-312)
InitialTrainingModelsExist ==
  IF experiment_id = InitialTrainingId THEN "models.joblib" \in expFiles ELSE otherModelsFile

\* Lines 479-480
RunTests ==
  /\ pc = "tests"
  /\ ~skip_tests
  /\ \E loadModels \in LoadOutcomes, loadPre \in {l \in LoadOutcomes : l.len = 0} :
     \E health \in [1..Len(health_targets(deployment_result)) -> HealthResponses] :
       /\ test_results' = run_deployment_tests(deployment_result, InitialTrainingModelsExist,
                                               modelFiles, loadModels, loadPre, health)
       /\ healthGets' = [i \in 1..Len(health) |->
                           [url |-> health_targets(deployment_result)[i].health_endpoint,
                            response |-> health[i]]]
  /\ Continue("summary")
  /\ UNCHANGED <<engine, runs, env, now, metadata, validation_results, registry_info, serving_config,
                 deployment_result, deployment_summary, files, regPosts, deployPosts,
                 regResponse, deployResponse>>

\* Lines 481-482
SkipTests ==
  /\ pc = "tests"
  /\ skip_tests
  /\ test_results' = [skipped |-> TRUE]
  /\ Continue("summary")
  /\ UNCHANGED <<engine, runs, env, now, metadata, validation_results, registry_info, serving_config,
                 deployment_result, deployment_summary, files, network>>

\* Lines 485-518
SaveSummary ==
  /\ pc = "summary"
  /\ LET r == save_deployment_summary(experiment_id, deployment_result, test_results, fsWritable)
     IN  IF r.raised
           THEN Fail("save_deployment_summary") /\ UNCHANGED <<deployment_summary, summaryDoc>>
           ELSE /\ deployment_summary' = r.value
                /\ summaryDoc' = JsonObject(r.value)
                /\ pc' = "done"
                /\ exitCode' = 0
                /\ UNCHANGED raisedIn
  /\ UNCHANGED <<engine, runs, env, now, metadata, validation_results, registry_info, serving_config,
                 deployment_result, test_results, registryDoc, registryText, network>>

Next ==
  \/ Tick
  \/ LoadMetadata
  \/ ValidateModels
  \/ Register
  \/ Synthesize
  \/ Deploy
  \/ RunTests
  \/ SkipTests
  \/ SaveSummary

Spec == Init /\ [][Next]_vars

----------------------------------------------------------------------------
(* Ensemble strategy engine (test-threat-detection.py) *)

\* Names of the models the engine may have loaded: catalog models and two models the
\* weights table does not name
EngineModelNames ==
  {"signature_detector", "anomaly_detector", "ensemble_rf", "ensemble_lr",
   "custom_a", "custom_b"}

\* Raw output of model.predict for one sample
RawLabels(name) == IF name = "anomaly_detector" THEN {-1, 1} ELSE {0, 1}

\* Values of predict_proba(X_test)[:, 1] for one sample, in tenths
ProbaGrid == {1, 9}

Zeros(n) == [i \in 1..n |-> 0]

\* A model whose predict and predict_proba raise on X_test
FailingModel(n) ==
  [fails |-> TRUE, has_proba |-> FALSE, predict |-> Zeros(n), proba |-> Zeros(n)]

\* Models without predict_proba
LabelModels(name, n) ==
  { [fails |-> FALSE, has_proba |-> FALSE, predict |-> p, proba |-> Zeros(n)] :
      p \in [1..n -> RawLabels(name)] }

\* Classifiers with predict_proba; predict is the class of the larger probability, the
\* second column of predict_proba belongs to the larger of the two raw labels
ProbaModels(name, n) ==
  { [fails |-> FALSE, has_proba |-> TRUE,
     predict |-> [i \in 1..n |-> IF 2 * q[i] > 10 THEN 1
                                  ELSE IF name = "anomaly_detector" THEN -1 ELSE 0],
     proba |-> q] :
      q \in [1..n -> ProbaGrid] }

\* What a loaded model of this name may do on X_test
ModelOutputs(name, n) ==
  {FailingModel(n)} \cup LabelModels(name, n) \cup ProbaModels(name, n)

\* self.models: a loaded model is described by what it returns on X_test.
EngineModels(names, n) ==
  { m \in [names -> UNION {ModelOutputs(x, n) : x \in names}] :
      \A x \in names : m[x] \in ModelOutputs(x, n) }

\* Rounding changed to round halves up
round_half_up(num, den) ==
  LET q == num \div den
      r == num % den
  IN  IF 2 * r < den THEN q ELSE q + 1

\* np.round of the non-negative value num/den: to the nearest integer, halves to even
np_round(num, den) ==
  LET q == num \div den
      r == num % den
  IN  IF 2 * r < den THEN q
      ELSE IF 2 * r > den THEN q + 1
      ELSE IF q % 2 = 0 THEN q ELSE q + 1

\* The raw output of predict taken as the prediction
raw_prediction(name, model) == model.predict

\* Lines 178-183, 285-289, 381-385: the binary prediction of one model
binary_prediction(name, model) ==
  IF name = "anomaly_detector"
    THEN [i \in DOMAIN model.predict |-> IF model.predict[i] = -1 THEN 1 ELSE 0]
    ELSE model.predict

\* What a strategy returns: (y_pred, y_prob); ndim is the number of axes of y_pred
Prediction(pred, prob) == [pred |-> pred, prob |-> prob, ndim |-> 1]

\* y_prob as an array of fractions num/den
ProbArray(p) == [kind |-> "array", val |-> p]

\* The models whose predict raises
Failing(models) == {x \in DOMAIN models : models[x].fails}

\* The mean cast to int without rounding
majority_vote_truncating(models, n) ==
  IF Failing(models) # {} THEN Raise("ValueError")
  ELSE IF DOMAIN models = {}
    THEN Return([pred |-> <<>>, prob |-> NoneVal, ndim |-> 0])
  ELSE
    LET predictions == [x \in DOMAIN models |-> binary_prediction(x, models[x])]
    IN  Return(Prediction(
          [i \in 1..n |->
             SumOver(DOMAIN models, [x \in DOMAIN models |-> predictions[x][i]])
               \div Cardinality(DOMAIN models)],
          NoneVal))

\* Lines 280-296. A predict that raises ends the call (no handler in the loop); with no
\* model the mean of the empty array is the scalar nan, and its cast to int is a scalar.
majority_vote_ensemble(models, n) ==
  IF Failing(models) # {} THEN Raise("ValueError")
  ELSE IF DOMAIN models = {}
    THEN Return([pred |-> <<>>, prob |-> NoneVal, ndim |-> 0])
  ELSE
    LET predictions == [x \in DOMAIN models |-> binary_prediction(x, models[x])]
        ensemble_pred ==
          [i \in 1..n |->
             np_round(SumOver(DOMAIN models, [x \in DOMAIN models |-> predictions[x][i]]),
                      Cardinality(DOMAIN models))]
    IN  Return(Prediction(ensemble_pred, NoneVal))

\* Lines 300-306, in tenths
weights ==
  [signature_detector |-> 3, anomaly_detector |-> 2, ensemble_rf |-> 5,
   ensemble_lr |-> 0, ensemble_svm |-> 0]

\* A name the table does not have given the weight 0
weight_of_listed_only(model_name) == Get(weights, model_name, 0)

\* Line 312: weights.get(model_name, 0.1), in tenths
weight_of(model_name) == Get(weights, model_name, 1)

\* Lines 316-328: the score of one model for each sample, in tenths
model_score(name, model) ==
  IF model.has_proba /\ name # "anomaly_detector"
    THEN model.proba
  ELSE IF name = "anomaly_detector"
    THEN [i \in DOMAIN model.predict |-> IF model.predict[i] = -1 THEN 10 ELSE 0]
  ELSE [i \in DOMAIN model.predict |-> 10 * model.predict[i]]

\* No model skipped
Weighted_all(models) == DOMAIN models

\* Lines 311-314: the models the loop does not skip
Weighted(models) == {x \in DOMAIN models : weight_of(x) # 0}

\* The weighted sum divided by the constant 1.0
weighted_average_fixed_divisor(models, n) ==
  LET used == Weighted(models)
  IN  IF used \cap Failing(models) # {} THEN Raise("ValueError")
      ELSE IF used # {}
        THEN LET ensemble_prob ==
                   [i \in 1..n |->
                      [num |-> SumOver(used, [x \in used |->
                                 weight_of(x) * model_score(x, models[x])[i]]),
                       den |-> 100]]
             IN  Return(Prediction(
                   [i \in 1..n |->
                      IF 2 * ensemble_prob[i].num > ensemble_prob[i].den THEN 1 ELSE 0],
                   ProbArray(ensemble_prob)))
      ELSE Return(Prediction(Zeros(n), NoneVal))

\* Lines 298-338. The combined score of a sample is the fraction num/den:
\* num the sum of weight * score in hundredths, den ten times the sum of the weights
\* in tenths. The arithmetic is exact; the code's doubles agree with it up to rounding
\* in the last place.
weighted_average_ensemble(models, n) ==
  LET used == Weighted(models)
  IN  IF used \cap Failing(models) # {} THEN Raise("ValueError")
      ELSE IF used # {}
        THEN LET total_weight == SumOver(used, [x \in used |-> weight_of(x)])
                 ensemble_prob ==
                   [i \in 1..n |->
                      [num |-> SumOver(used, [x \in used |->
                                 weight_of(x) * model_score(x, models[x])[i]]),
                       den |-> 10 * total_weight]]
             IN  Return(Prediction(
                   [i \in 1..n |->
                      IF 2 * ensemble_prob[i].num > ensemble_prob[i].den THEN 1 ELSE 0],
                   ProbArray(ensemble_prob)))
      ELSE Return(Prediction(Zeros(n), NoneVal))

\* The signature detector preferred to the random forest
best_model_signature_first(models) ==
  IF "signature_detector" \in DOMAIN models THEN "signature_detector"
  ELSE IF "ensemble_rf" \in DOMAIN models THEN "ensemble_rf"
  ELSE "none"

\* Line 343: self.models.get('ensemble_rf') or self.models.get('signature_detector')
best_model(models) ==
  IF "ensemble_rf" \in DOMAIN models THEN "ensemble_rf"
  ELSE IF "signature_detector" \in DOMAIN models THEN "signature_detector"
  ELSE "none"

\* Lines 340-352
best_model_ensemble(models, n) ==
  LET name == best_model(models)
  IN  IF name = "none" THEN Return(Prediction(Zeros(n), NoneVal))
      ELSE IF models[name].fails THEN Raise("ValueError")
      ELSE Return(Prediction(
             models[name].predict,
             IF models[name].has_proba
               THEN ProbArray([i \in 1..n |-> [num |-> models[name].proba[i], den |-> 10]])
               ELSE NoneVal))

\* Lines 242-276: one strategy called by test_ensemble_performance. The metrics of
\* lines 248-250 need a prediction per sample and raise on a scalar.
strategy_result(strategy_name, r) ==
  IF r.raised
    THEN [strategy |-> strategy_name, status |-> "error", error |-> r.error]
  ELSE IF r.value.ndim = 0
    THEN [strategy |-> strategy_name, status |-> "error", error |-> "TypeError"]
  ELSE [strategy |-> strategy_name, status |-> "success",
        pred |-> r.value.pred, prob |-> r.value.prob]

\* The engine with at most max_models models loaded, their names among known_names, and
\* a test set, the deployment driver not running
EngineLoaded(known_names, max_models) ==
  /\ experiment_id = InitialTrainingId
  /\ skip_tests = FALSE
  /\ expFiles = Range(required_files)
  /\ modelFiles = {}
  /\ metadataDoc = Unparsable
  /\ otherModelsFile = FALSE
  /\ fsWritable = TRUE
  /\ jsonErrorCaught = TRUE
  /\ now = 0
  /\ pc = "engine"
  /\ metadata = NoneVal
  /\ validation_results = EmptyDict
  /\ registry_info = NoneVal
  /\ serving_config = NoneVal
  /\ deployment_result = NoneVal
  /\ test_results = NoneVal
  /\ deployment_summary = NoneVal
  /\ exitCode = -1
  /\ raisedIn = ""
  /\ registryDoc = NoneVal
  /\ registryText = NoneVal
  /\ summaryDoc = NoneVal
  /\ regPosts = 0
  /\ deployPosts = 0
  /\ healthGets = <<>>
  /\ regResponse = NoResponse
  /\ deployResponse = NoResponse
  /\ n_samples \in 1..MaxSamples
  /\ \E names \in SUBSET known_names :
       /\ Cardinality(names) \in 0..max_models
       /\ self_models \in EngineModels(names, n_samples)
  /\ ensemble_out = [strategy |-> "none"]
  /\ eval_out = NoneVal
  /\ attempts = EmptyDict
  /\ dirFiles = EmptyDict

InitEngine == EngineLoaded(EngineModelNames, MaxModels)

\* Line 244, strategy_func = self.majority_vote_ensemble
MajorityVote ==
  /\ ensemble_out.strategy = "none"
  /\ eval_out = NoneVal
  /\ ensemble_out' = strategy_result("majority_vote",
                                     majority_vote_ensemble(self_models, n_samples))
  /\ UNCHANGED <<driver, runs, self_models, n_samples, eval_out>>

\* Line 244, strategy_func = self.weighted_average_ensemble
WeightedAverage ==
  /\ ensemble_out.strategy = "none"
  /\ eval_out = NoneVal
  /\ ensemble_out' = strategy_result("weighted_average",
                                     weighted_average_ensemble(self_models, n_samples))
  /\ UNCHANGED <<driver, runs, self_models, n_samples, eval_out>>

\* Line 244, strategy_func = self.best_model_ensemble
BestModel ==
  /\ ensemble_out.strategy = "none"
  /\ eval_out = NoneVal
  /\ ensemble_out' = strategy_result("best_model",
                                     best_model_ensemble(self_models, n_samples))
  /\ UNCHANGED <<driver, runs, self_models, n_samples, eval_out>>

\* Values of y_test for one sample: 1 is a threat
TrueLabels == {0, 1}

\* Lines 188, 390: (y_pred == y_true).mean(), as correct / total
accuracy(y_pred, y_true) ==
  [num |-> Cardinality({i \in DOMAIN y_pred : y_pred[i] = y_true[i]}),
   den |-> Len(y_pred)]

\* Lines 164-223: one model in test_individual_models. The report, the confusion matrix
\* and the timings are left out.
individual_result(name, model, y_test) ==
  IF model.fails
    THEN [status |-> "error", error |-> "Exception"]
    ELSE [status |-> "success",
          accuracy |-> accuracy(binary_prediction(name, model), y_test)]

\* Lines 156-225
test_individual_models(models, y_test) ==
  [x \in DOMAIN models |-> individual_result(x, models[x], y_test)]

\* Line 361
batch_sizes == <<1, 10, 50, 100, 500, 1000>>

\* Lines 363-365: the batch sizes the loop does not skip
BatchSizes(n) == {b \in Range(batch_sizes) : b <= n}

\* Line 370: np.random.choice(n, size=b, replace=False)
Samples(n, b) ==
  {s \in [1..b -> 1..n] : \A i, j \in 1..b : i # j => s[i] # s[j]}

\* Lines 371-372: X[indices], y[indices]
Take(a, indices) == [j \in DOMAIN indices |-> a[indices[j]]]

\* What the model returns on X_batch
OnBatch(model, indices) ==
  [model EXCEPT !.predict = Take(@, indices), !.proba = Take(@, indices)]

\* Lines 377-400: one model on one batch
batch_model_result(name, model, indices, y_test) ==
  IF model.fails
    THEN [error |-> "Exception"]
    ELSE [accuracy |-> accuracy(binary_prediction(name, OnBatch(model, indices)),
                                Take(y_test, indices))]

\* Lines 354-404, with the indices drawn for each batch size
test_performance_under_load(models, y_test, indices) ==
  [b \in DOMAIN indices |->
     [x \in DOMAIN models |-> batch_model_result(x, models[x], indices[b], y_test)]]

\* Line 544
TestIndividualModels ==
  /\ ensemble_out.strategy = "none"
  /\ eval_out = NoneVal
  /\ \E y_test \in [1..n_samples -> TrueLabels] :
       eval_out' = [kind |-> "individual", y_test |-> y_test,
                    results |-> test_individual_models(self_models, y_test)]
  /\ UNCHANGED <<driver, runs, self_models, n_samples, ensemble_out>>

\* Line 551
TestPerformanceUnderLoad ==
  /\ ensemble_out.strategy = "none"
  /\ eval_out = NoneVal
  /\ \E y_test \in [1..n_samples -> TrueLabels] :
       \E indices \in [BatchSizes(n_samples) ->
                         UNION {Samples(n_samples, b) : b \in BatchSizes(n_samples)}] :
         /\ \A b \in BatchSizes(n_samples) : indices[b] \in Samples(n_samples, b)
         /\ eval_out' = [kind |-> "load", y_test |-> y_test, indices |-> indices,
                         results |-> test_performance_under_load(self_models, y_test,
                                                                 indices)]
  /\ UNCHANGED <<driver, runs, self_models, n_samples, ensemble_out>>

NextEngine ==
  \/ MajorityVote
  \/ WeightedAverage
  \/ BestModel

SpecEngine == InitEngine /\ [][NextEngine]_vars

\* The engine run through the evaluations of main (lines 544-551): the per-model
\* tests, the ensemble strategies and the load test, each from the loaded state
InitEvaluation == EngineLoaded(EngineModelNames, MaxTestedModels)

NextEvaluation ==
  \/ NextEngine
  \/ TestIndividualModels
  \/ TestPerformanceUnderLoad

SpecEvaluation == InitEvaluation /\ [][NextEvaluation]_vars

\* The weighted average over models of every name in its weights table and of one name
\* the table does not have
WeightedModelNames == DOMAIN weights \cup {"custom_a"}

InitWeighted == EngineLoaded(WeightedModelNames, MaxModels)

NextWeighted == WeightedAverage

SpecWeighted == InitWeighted /\ [][NextWeighted]_vars

----------------------------------------------------------------------------
(* Two runs of main side by side, each about to build its serving configuration *)

AttemptIds == {1, 2}

\* The registry entries the two runs hold
AttemptEntries(eid) ==
  { JsonObject(registry_payload(eid, EmptyDict, {ModelFile("signature_detector")})),
    JsonObject(registry_payload(eid, EmptyDict,
                                {ModelFile("signature_detector"), ModelFile("ensemble_rf")})),
    JsonObject([status |-> "registered"]) }

\* main at line 473, for the experiment eid
AttemptStates ==
  { [experiment_id |-> eid, registry_info |-> info, pc |-> "synthesize",
     serving_config |-> NoneVal] :
      eid \in ExperimentIds, info \in UNION {AttemptEntries(e) : e \in ExperimentIds} }

InitAttempts ==
  /\ experiment_id = InitialTrainingId
  /\ skip_tests = FALSE
  /\ expFiles = Range(required_files)
  /\ modelFiles = {}
  /\ metadataDoc = Unparsable
  /\ otherModelsFile = FALSE
  /\ fsWritable = TRUE
  /\ jsonErrorCaught = TRUE
  /\ now = 0
  /\ pc = "attempts"
  /\ metadata = NoneVal
  /\ validation_results = EmptyDict
  /\ registry_info = NoneVal
  /\ serving_config = NoneVal
  /\ deployment_result = NoneVal
  /\ test_results = NoneVal
  /\ deployment_summary = NoneVal
  /\ exitCode = -1
  /\ raisedIn = ""
  /\ registryDoc = NoneVal
  /\ registryText = NoneVal
  /\ summaryDoc = NoneVal
  /\ regPosts = 0
  /\ deployPosts = 0
  /\ healthGets = <<>>
  /\ regResponse = NoResponse
  /\ deployResponse = NoResponse
  /\ self_models = EmptyDict
  /\ n_samples = 0
  /\ ensemble_out = [strategy |-> "none"]
  /\ eval_out = NoneVal
  /\ attempts \in { a \in [AttemptIds -> AttemptStates] :
                      \A k \in AttemptIds :
                        a[k].registry_info \in AttemptEntries(a[k].experiment_id) }
  /\ dirFiles = EmptyDict

\* Line 473 in the run k
SynthesizeAttempt(k) ==
  /\ pc = "attempts"
  /\ attempts[k].pc = "synthesize"
  /\ LET r == create_model_serving_config(attempts[k].experiment_id,
                                          attempts[k].registry_info, now)
     IN  attempts' = [attempts EXCEPT ![k] =
                        IF r.raised
                          THEN [@ EXCEPT !.pc = "done"]
                          ELSE [@ EXCEPT !.pc = "deploy", !.serving_config = r.value]]
  /\ UNCHANGED <<driver, engine, dirFiles>>

NextAttempts ==
  \/ Tick
  \/ \E k \in AttemptIds : SynthesizeAttempt(k)

SpecAttempts == InitAttempts /\ [][NextAttempts]_vars

----------------------------------------------------------------------------
(* Two runs of main on one experiment directory, each about to write one of its files *)

RegistryFile == "model_registry_deployment.json"

SummaryFile == "deployment_summary.json"

\* The candidate entries the two runs may hold: the models directory with one or with
\* two of the catalog's model files
WriterCandidates(eid) ==
  { registry_payload(eid, EmptyDict, {ModelFile("signature_detector")}),
    registry_payload(eid, EmptyDict,
                     {ModelFile("signature_detector"), ModelFile("ensemble_rf")}) }

\* The answers the two runs may have got to their deploy POST
WriterDeployResponses == {Timeout, Http(200, JsonObject([status |-> "ok"]))}

\* The summaries the two runs may hold at line 433, their tests skipped
WriterSummaries(eid) ==
  { deployment_summary_of(
      eid,
      deploy_to_serving_infrastructure(
        create_model_serving_config(eid, JsonObject(c), 0).value, resp, TRUE).value,
      [skipped |-> TRUE]) :
      c \in WriterCandidates(eid), resp \in WriterDeployResponses }

\* What a run is about to write: the registry document at line 148 or the summary at
\* line 433, as the text json.dump makes of it
PendingWrites(eid) ==
  { [file |-> RegistryFile, text |-> json_text(json_dump(py_registry_payload(c)))] :
      c \in WriterCandidates(eid) }
  \cup
  { [file |-> SummaryFile, text |-> json_text(json_dump(py_deployment_summary(d)))] :
      d \in WriterSummaries(eid) }

\* A run before its open(..., 'w')
WriterStates ==
  { [experiment_id |-> InitialTrainingId, pc |-> "open", file |-> w.file, text |-> w.text] :
      w \in PendingWrites(InitialTrainingId) }

InitWriters ==
  /\ experiment_id = InitialTrainingId
  /\ skip_tests = FALSE
  /\ expFiles = Range(required_files)
  /\ modelFiles = {}
  /\ metadataDoc = Unparsable
  /\ otherModelsFile = FALSE
  /\ fsWritable = TRUE
  /\ jsonErrorCaught = TRUE
  /\ now = 0
  /\ pc = "writers"
  /\ metadata = NoneVal
  /\ validation_results = EmptyDict
  /\ registry_info = NoneVal
  /\ serving_config = NoneVal
  /\ deployment_result = NoneVal
  /\ test_results = NoneVal
  /\ deployment_summary = NoneVal
  /\ exitCode = -1
  /\ raisedIn = ""
  /\ registryDoc = NoneVal
  /\ registryText = NoneVal
  /\ summaryDoc = NoneVal
  /\ regPosts = 0
  /\ deployPosts = 0
  /\ healthGets = <<>>
  /\ regResponse = NoResponse
  /\ deployResponse = NoResponse
  /\ self_models = EmptyDict
  /\ n_samples = 0
  /\ ensemble_out = [strategy |-> "none"]
  /\ eval_out = NoneVal
  /\ attempts \in [AttemptIds -> WriterStates]
  /\ dirFiles = EmptyDict

\* Lines 148, 434: open(file, 'w') creates the file or truncates it to length zero; the
\* run's position in the file is its start
OpenForWriting(k) ==
  /\ pc = "writers"
  /\ attempts[k].pc = "open"
  /\ dirFiles' = Put(dirFiles, attempts[k].file, <<>>)
  /\ attempts' = [attempts EXCEPT ![k].pc = "dump"]
  /\ UNCHANGED <<driver, engine>>

\* Overwriting the file from its start with text: what lies beyond the text stays
WriteAtStart(content, text) == text \o SubSeq(content, Len(text) + 1, Len(content))

\* Lines 149, 435 and the end of the with block: json.dump fills the file object's
\* buffer, closing the file writes the buffer at the run's position
DumpAndClose(k) ==
  /\ pc = "writers"
  /\ attempts[k].pc = "dump"
  /\ dirFiles' = [dirFiles EXCEPT ![attempts[k].file] = WriteAtStart(@, attempts[k].text)]
  /\ attempts' = [attempts EXCEPT ![k].pc = "done"]
  /\ UNCHANGED <<driver, engine>>

NextWriters ==
  \/ \E k \in AttemptIds : OpenForWriting(k)
  \/ \E k \in AttemptIds : DumpAndClose(k)

SpecWriters == InitWriters /\ [][NextWriters]_vars

----------------------------------------------------------------------------
(* Properties of the deployment driver, checked under Spec *)

IsHttp200(resp) == resp.outcome = "http" /\ resp.status_code = 200

\* timeout, connection error or non-200 response
IsFailure(resp) ==
  \/ resp.outcome \in {"timeout", "connection_error"}
  \/ resp.outcome = "http" /\ resp.status_code # 200

DeployCalled == deployPosts > 0

DeployRaised == raisedIn = "deploy_to_serving_infrastructure"

RegisterCalled == regPosts > 0

RegisterRaised == raisedIn = "register_models_with_registry"

Candidate == JsonObject(registry_payload(experiment_id, metadata, modelFiles))

NoCatalogArtifact == \A i \in 1..Len(model_names) : ModelFile(model_names[i]) \notin modelFiles

ValidatorReportsAbsent == \E f \in DOMAIN validation_results : ~validation_results[f]

\* C1: Deploy always returns a result and never raises, whatever the deploy POST's
\* outcome (200, non-200, timeout, connection error, unparsable 200 body), and the
\* returned status is 'deployed' or 'configuration_ready', never 'pending'.
C1_DeployAlwaysReturns ==
  DeployCalled =>
    /\ ~DeployRaised
    /\ deployment_result # NoneVal
    /\ deployment_result.status \in {"deployed", "configuration_ready"}

\* C2: when the deploy POST fails (timeout, connection error, non-200), Deploy returns
\* status 'configuration_ready', the fixed non-empty instruction list, the file path of
\* every model of the config, and one endpoint per model of the config, in order.
C2_FallbackResult ==
  (DeployCalled /\ IsFailure(deployResponse)) =>
    /\ ~DeployRaised
    /\ deployment_result.status = "configuration_ready"
    /\ deployment_result.manual_deployment.instructions = manual_instructions
    /\ Len(deployment_result.manual_deployment.instructions) > 0
    /\ deployment_result.manual_deployment.model_files =
         [i \in 1..Len(serving_config.models) |-> serving_config.models[i].file_path]
    /\ Len(deployment_result.endpoints) = Len(serving_config.models)
    /\ \A i \in 1..Len(serving_config.models) :
         deployment_result.endpoints[i].model = serving_config.models[i].name

\* A failed deploy POST for a config of several models
C2_Witness ==
  /\ DeployCalled
  /\ deployResponse = Timeout
  /\ Len(serving_config.models) >= 2
  /\ deployment_result.status = "configuration_ready"

\* C3: when the deploy POST returns HTTP 200, Deploy returns status 'deployed' with one
\* endpoint pair (base URL + prediction path, base URL + health path) per model, no
\* manual-deployment instructions, and the same endpoint list as the fallback computes.
C3_DeployedOn200 ==
  (DeployCalled /\ IsHttp200(deployResponse)) =>
    /\ ~DeployRaised
    /\ deployment_result # NoneVal
    /\ deployment_result.status = "deployed"
    /\ deployment_result.endpoints =
         [i \in 1..Len(serving_config.models) |->
            [model |-> serving_config.models[i].name,
             endpoint |-> mlops_base_url \o serving_config.models[i].endpoint,
             health_endpoint |-> mlops_base_url \o serving_config.models[i].health_endpoint]]
    /\ deployment_result.endpoints = reference_endpoints(serving_config)
    /\ "manual_deployment" \notin DOMAIN deployment_result

C5_RegisterRejectsEmpty ==
  RegisterCalled =>
    /\ NoCatalogArtifact => RegisterRaised
    /\ (registry_info.kind = "object" /\ "models" \in DOMAIN registry_info.obj)
         => Len(registry_info.obj.models) > 0

\* C6 as stated: one registry POST; on HTTP 200 the response body is returned; on every
\* other outcome the candidate is written to the experiment directory and returned.
C6_RemoteOrFallback ==
  (RegisterCalled /\ fsWritable) =>
    /\ regPosts = 1
    /\ ~RegisterRaised
    /\ IF IsHttp200(regResponse)
         THEN registry_info = regResponse.body
         ELSE registry_info = Candidate /\ registryDoc = Candidate

\* C6 as amended: one registry POST; on HTTP 200 with a body that parses as JSON the
\* parsed body is returned; on a non-200 response, a timeout or a connection error the
\* candidate is written to the experiment directory and returned.
C6_RemoteJsonOrFallback ==
  (RegisterCalled /\ fsWritable) =>
    /\ regPosts = 1
    /\ (IsHttp200(regResponse) /\ regResponse.body.kind # "unparsable") =>
         (~RegisterRaised /\ registry_info = regResponse.body)
    /\ IsFailure(regResponse) =>
         (~RegisterRaised /\ registry_info = Candidate /\ registryDoc = Candidate)

\* The registry answered 500 and the candidate was written and returned
C6_Witness ==
  /\ RegisterCalled
  /\ regResponse.outcome = "http"
  /\ regResponse.status_code = 500
  /\ registryDoc # NoneVal
  /\ registry_info = registryDoc

\* C7: in every ServingConfig that Synthesize returns, every model name with a weight in
\* the ensemble policy has an entry in the config's model list.
C7_WeightsHaveModels ==
  serving_config # NoneVal =>
    \A n \in DOMAIN serving_config.ensemble_config.weights :
      \E i \in 1..Len(serving_config.models) : serving_config.models[i].name = n

\* C8: the validator does not fail on a missing artifact: it returns a mapping with an
\* entry for every required artifact name, false exactly for the missing ones, and
\* leaves the file system as it was.
C8_ValidatorReports ==
  [][(pc = "validate" /\ pc' # "validate") =>
       /\ raisedIn' = ""
       /\ Range(required_files) \subseteq DOMAIN validation_results'
       /\ \A f \in DOMAIN validation_results' :
            (~validation_results'[f]) <=> (f \in Range(required_files) /\ f \notin expFiles)
       /\ expFiles' = expFiles
       /\ modelFiles' = modelFiles
       /\ files' = files]_vars

\* The validator has reported a missing required file next to files it found
C8_Witness ==
  /\ DOMAIN validation_results # {}
  /\ ~validation_results["deployment_config.json"]
  /\ validation_results["models.joblib"]
  /\ ModelFile("custom_model") \in DOMAIN validation_results

\* C9: if the metadata document is missing or the validator reports a required artifact
\* absent, the run aborts before registration: no registry POST, no deploy POST, no
\* health GET, no registry document, no summary, and exit code 1.
C9_AbortBeforeRegistration ==
  ("metadata.json" \notin expFiles \/ ValidatorReportsAbsent) =>
    /\ pc \in {"load_metadata", "validate", "done"}
    /\ regPosts = 0
    /\ deployPosts = 0
    /\ healthGets = <<>>
    /\ registryDoc = NoneVal
    /\ summaryDoc = NoneVal
    /\ pc = "done" => exitCode = 1

\* A run stopped by the validator's report
C9_Witness ==
  /\ pc = "done"
  /\ exitCode = 1
  /\ metadata # NoneVal
  /\ ValidatorReportsAbsent

----------------------------------------------------------------------------
(* Properties of the ensemble engine, checked under SpecEngine *)

\* number of models whose binary prediction on sample i is 1
Ones(i) ==
  Cardinality({x \in DOMAIN self_models : binary_prediction(x, self_models[x])[i] = 1})

\* exactly half of the models predict 1 on sample i
Tie(i) == 2 * Ones(i) = Cardinality(DOMAIN self_models)

\* C10 as stated: majority vote resolves an exact tie to the positive class.
C10_TieIsPositive ==
  (ensemble_out.strategy = "majority_vote" /\ ensemble_out.status = "success") =>
    \A i \in 1..n_samples : Tie(i) => ensemble_out.pred[i] = 1

\* C10 as amended: majority vote resolves an exact tie to the negative class (np.round
\* rounds the mean 0.5 to the even integer 0).
C10_TieIsNegative ==
  (ensemble_out.strategy = "majority_vote" /\ ensemble_out.status = "success") =>
    \A i \in 1..n_samples : Tie(i) => ensemble_out.pred[i] = 0

\* Majority vote on the inputs [1, 0]
C10_Witness ==
  /\ ensemble_out.strategy = "majority_vote"
  /\ ensemble_out.status = "success"
  /\ DOMAIN self_models = {"signature_detector", "ensemble_rf"}
  /\ self_models["signature_detector"].predict[1] = 1
  /\ self_models["ensemble_rf"].predict[1] = 0
  /\ Tie(1)

\* C11: majority vote over one or more models that all answer gives, for each sample,
\* label 1 when strictly more than half of the models predict 1 and label 0 when
\* strictly fewer than half do; with a single model it is that model's binary
\* prediction; it returns no probability.
C11_MajorityVote ==
  (ensemble_out.strategy = "majority_vote" /\ ensemble_out.status = "success") =>
    /\ ensemble_out.prob = NoneVal
    /\ DOMAIN ensemble_out.pred = 1..n_samples
    /\ \A i \in 1..n_samples :
         /\ 2 * Ones(i) > Cardinality(DOMAIN self_models) => ensemble_out.pred[i] = 1
         /\ 2 * Ones(i) < Cardinality(DOMAIN self_models) => ensemble_out.pred[i] = 0
    /\ \A x \in DOMAIN self_models :
         DOMAIN self_models = {x} =>
           ensemble_out.pred = binary_prediction(x, self_models[x])

\* Majority vote on the inputs [1, 1, 0], the 1s from the anomaly detector's -1 and a
\* classifier's 1
C11_Witness ==
  /\ ensemble_out.strategy = "majority_vote"
  /\ ensemble_out.status = "success"
  /\ DOMAIN self_models = {"anomaly_detector", "signature_detector", "ensemble_rf"}
  /\ self_models["anomaly_detector"].predict[1] = -1
  /\ self_models["signature_detector"].predict[1] = 1
  /\ self_models["ensemble_rf"].predict[1] = 0
  /\ ensemble_out.pred[1] = 1

\* the loaded models with a positive weight
Active == {x \in DOMAIN self_models : weight_of(x) > 0}

\* sum of the weights of the active models, in tenths
ActiveWeight == SumOver(Active, [x \in Active |-> weight_of(x)])

\* sum over the active models of weight * score on sample i, in hundredths
WeightedScore(i) ==
  SumOver(Active, [x \in Active |-> weight_of(x) * model_score(x, self_models[x])[i]])

\* C12: the weighted average's combined score of a sample is the sum of weight * score
\* over the models with a positive weight divided by the sum of those weights; the
\* label is 1 exactly when the combined score is strictly greater than 0.5; two models
\* of equal weight with scores 0.9 and 0.1 combine to 0.5 and label 0; scores in [0, 1]
\* give a combined score in [0, 1].
C12_WeightedAverage ==
  (/\ ensemble_out.strategy = "weighted_average"
   /\ ensemble_out.status = "success"
   /\ Active # {}) =>
    /\ ensemble_out.prob # NoneVal
    /\ \A i \in 1..n_samples :
         LET p == ensemble_out.prob.val[i]
         IN  /\ p.den > 0
             /\ p.num * (10 * ActiveWeight) = WeightedScore(i) * p.den
             /\ ensemble_out.pred[i] = 1 <=> 2 * p.num > p.den
             /\ ensemble_out.pred[i] \in {0, 1}
             /\ 0 <= p.num /\ p.num <= p.den
             /\ (/\ DOMAIN self_models = {"custom_a", "custom_b"}
                 /\ model_score("custom_a", self_models["custom_a"])[i] = 9
                 /\ model_score("custom_b", self_models["custom_b"])[i] = 1)
                  => 2 * p.num = p.den /\ ensemble_out.pred[i] = 0

\* Weighted average of two models of equal weight with scores 0.9 and 0.1
C12_Witness ==
  /\ ensemble_out.strategy = "weighted_average"
  /\ ensemble_out.status = "success"
  /\ DOMAIN self_models = {"custom_a", "custom_b"}
  /\ weight_of("custom_a") = weight_of("custom_b")
  /\ self_models["custom_a"].proba[1] = 9
  /\ self_models["custom_b"].proba[1] = 1
  /\ ensemble_out.pred[1] = 0

\* C13: the weighted average called with no loaded model of positive weight (every
\* loaded model of weight zero, or no model loaded) returns the all-zero prediction of
\* the input's length and no probability, and does not fail on a division by zero.
C13_NoActiveModel ==
  (ensemble_out.strategy = "weighted_average" /\ Active = {}) =>
    /\ ensemble_out.status = "success"
    /\ ensemble_out.pred = [i \in 1..n_samples |-> 0]
    /\ ensemble_out.prob = NoneVal

\* Weighted average with only a zero-weight model loaded
C13_Witness ==
  /\ ensemble_out.strategy = "weighted_average"
  /\ DOMAIN self_models = {"ensemble_lr"}
  /\ weight_of("ensemble_lr") = 0
  /\ ensemble_out.status = "success"

\* Weighted average with no model loaded
C13_WitnessEmpty ==
  /\ ensemble_out.strategy = "weighted_average"
  /\ DOMAIN self_models = {}
  /\ ensemble_out.status = "success"

\* C14: best-model returns the prediction of ensemble_rf whenever it is loaded, whatever
\* else is loaded; without ensemble_rf it returns the prediction of signature_detector;
\* with neither it returns the all-zero prediction of the input's length and no
\* probability. (Stated for calls in which the chosen model's predict returns.)
C14_BestModel ==
  ensemble_out.strategy = "best_model" =>
    /\ ("ensemble_rf" \in DOMAIN self_models /\ ~self_models["ensemble_rf"].fails) =>
         /\ ensemble_out.status = "success"
         /\ ensemble_out.pred = self_models["ensemble_rf"].predict
    /\ (/\ "ensemble_rf" \notin DOMAIN self_models
        /\ "signature_detector" \in DOMAIN self_models
        /\ ~self_models["signature_detector"].fails) =>
         /\ ensemble_out.status = "success"
         /\ ensemble_out.pred = self_models["signature_detector"].predict
    /\ (/\ "ensemble_rf" \notin DOMAIN self_models
        /\ "signature_detector" \notin DOMAIN self_models) =>
         /\ ensemble_out.status = "success"
         /\ ensemble_out.pred = [i \in 1..n_samples |-> 0]
         /\ ensemble_out.prob = NoneVal

\* Best-model with ensemble_rf and signature_detector loaded and disagreeing
C14_Witness ==
  /\ ensemble_out.strategy = "best_model"
  /\ ensemble_out.status = "success"
  /\ {"ensemble_rf", "signature_detector"} \subseteq DOMAIN self_models
  /\ ~self_models["signature_detector"].fails
  /\ self_models["ensemble_rf"].predict[1] = 1
  /\ self_models["signature_detector"].predict[1] = 0
  /\ ensemble_out.pred[1] = 1

\* Best-model with neither of the two models loaded
C14_WitnessNeither ==
  /\ ensemble_out.strategy = "best_model"
  /\ DOMAIN self_models = {"anomaly_detector", "ensemble_lr"}
  /\ ensemble_out.status = "success"

\* C15: in majority vote and in weighted average, when the inference of one loaded
\* model fails while another model's succeeds, the failing model is left out and the
\* strategy still produces an ensemble prediction.
C15_FailureExcluded ==
  /\ (/\ ensemble_out.strategy = "majority_vote"
      /\ Failing(self_models) # {}
      /\ DOMAIN self_models \ Failing(self_models) # {})
       => ensemble_out.status = "success"
  /\ (/\ ensemble_out.strategy = "weighted_average"
      /\ Active \cap Failing(self_models) # {}
      /\ Active \ Failing(self_models) # {})
       => ensemble_out.status = "success"

----------------------------------------------------------------------------
(* Properties of the validation harness and of main, checked under Spec *)

\* number of the tests of the report with status "passed"
PassedTests ==
  Cardinality({i \in 1..Len(test_results.tests) : test_results.tests[i].status = "passed"})

C16_WitnessAllPassed ==
  /\ test_results # NoneVal
  /\ ~skip_tests
  /\ test_results.summary.total_tests >= 3
  /\ test_results.summary.success_rate.num = test_results.summary.success_rate.den

\* A skipped harness
C16_WitnessSkipped ==
  /\ test_results # NoneVal
  /\ skip_tests

\* C17: every run that passed validation and can write its experiment directory ends
\* with the deployment summary written, whatever the registry POST, the deploy POST and
\* the health GETs answered and with or without --skip-tests: no network outcome makes
\* the run end in an error.
C17_AlwaysSummary ==
  (pc = "done" /\ RegisterCalled /\ fsWritable) =>
    (summaryDoc # NoneVal /\ raisedIn = "")

\* The same holds of the runs in which a body that does not parse raises a
\* RequestException (requests >= 2.27) and the registry's 200 body is not a JSON array.
C17_SummaryWhenBodiesParse ==
  (/\ pc = "done" /\ RegisterCalled /\ fsWritable /\ jsonErrorCaught
   /\ ~(IsHttp200(regResponse) /\ regResponse.body.kind = "array")) =>
    (summaryDoc # NoneVal /\ raisedIn = "")

\* every stage of main up to the writing of the summary has completed
AllStagesCompleted ==
  /\ metadata # NoneVal
  /\ validation_results # EmptyDict /\ AllValid(validation_results)
  /\ registry_info # NoneVal
  /\ serving_config # NoneVal
  /\ deployment_result # NoneVal
  /\ test_results # NoneVal
  /\ deployment_summary # NoneVal
  /\ summaryDoc # NoneVal

\* C18: main's exit code is 0 exactly when every stage up to and including the writing
\* of the deployment summary completed, and 1 on a validation failure or an error
\* raised in any stage; a run that wrote no summary does not exit 0.
C18_ExitCode ==
  /\ pc # "done" => exitCode = -1
  /\ pc = "done" =>
       /\ exitCode \in {0, 1}
       /\ exitCode = 0 <=> AllStagesCompleted
       /\ (raisedIn # "" \/ ValidatorReportsAbsent) => exitCode = 1
       /\ summaryDoc = NoneVal => exitCode # 0

\* A run that exits 0 with the registry and the serving API unreachable
C18_Witness ==
  /\ pc = "done"
  /\ exitCode = 0
  /\ IsFailure(regResponse)
  /\ IsFailure(deployResponse)
  /\ summaryDoc # NoneVal

\* A validated run that exits 1 on an error raised while the summary is written
C18_WitnessError ==
  /\ pc = "done"
  /\ exitCode = 1
  /\ raisedIn = "save_deployment_summary"
  /\ summaryDoc = NoneVal

\* the names of the models of a registry entry read as a Python object, in order
EntryModelNames(entry) ==
  [i \in 1..Len(entry.val.models.val) |-> entry.val.models.val[i].val.name.val]

\* C20: the registry document written by the local fallback, read back with json.load,
\* equals the entry Register returned: the same models in the same order, each with the
\* same fields and performance metrics, and the same preprocessor reference.
C20_RegistryRoundTrip ==
  registryText # NoneVal =>
    /\ registry_info # NoneVal
    /\ json_load(registryText) = py_registry_payload(registry_info.obj)
    /\ EntryModelNames(json_load(registryText))
         = [i \in 1..Len(registry_info.obj.models) |-> registry_info.obj.models[i].name]

\* A fallback document with two models, metrics and the preprocessor reference
C20_Witness ==
  /\ registryText # NoneVal
  /\ registry_info # NoneVal
  /\ Len(registry_info.obj.models) >= 2
  /\ "preprocessors" \in DOMAIN registry_info.obj
  /\ \E i \in 1..Len(registry_info.obj.models) :
       registry_info.obj.models[i].performance_metrics # EmptyDict

----------------------------------------------------------------------------
(* Properties of runs side by side, checked under SpecAttempts *)

\* the run k has built its serving configuration
Configured(k) == attempts[k].pc = "deploy"

\* C19: the deployment id of a run is 'deploy-' + experiment id + '-' + Unix time, and
\* two runs, also two side by side for the same experiment, never get the same id
\* (the clock never goes backwards).
C19_UniqueDeploymentId ==
  \A j \in AttemptIds, k \in AttemptIds :
    (j # k /\ Configured(j) /\ Configured(k)) =>
      attempts[j].serving_config.deployment_id # attempts[k].serving_config.deployment_id

\* A run gets the id another run already has only when both deploy the same experiment
\* and built their configuration within the same second of the clock.
C19_UniqueAcrossSecondsOrExperiments ==
  [][\A j \in AttemptIds, k \in AttemptIds :
       (/\ j # k
        /\ attempts[j].pc = "deploy" /\ attempts[k].pc = "synthesize"
        /\ attempts'[k].pc = "deploy"
        /\ attempts[j].serving_config.deployment_id
             = attempts'[k].serving_config.deployment_id)
         => (/\ attempts[j].experiment_id = attempts[k].experiment_id
             /\ attempts[j].serving_config.deployment_id
                  = deployment_id(attempts[k].experiment_id, now))]_vars

----------------------------------------------------------------------------
(* Properties of the stages of one run, checked under Spec *)

\* C21: the stages of a run go in the order validator, registry client, config
\* synthesizer, deployment executor, validation harness, summary writer: a stage has
\* produced its value only after the stage before it returned, each stage works on the
\* value the stage before it returned, and the summary holds the deployment result and
\* the harness's report of this run.
C21_StageOrder ==
  /\ RegisterCalled => (validation_results # EmptyDict /\ AllValid(validation_results))
  /\ registry_info # NoneVal => (RegisterCalled /\ ~RegisterRaised)
  /\ pc \in {"load_metadata", "validate", "register"} =>
       (serving_config = NoneVal /\ ~DeployCalled /\ deployment_result = NoneVal
        /\ healthGets = <<>> /\ test_results = NoneVal /\ summaryDoc = NoneVal)
  /\ serving_config # NoneVal =>
       /\ registry_info # NoneVal
       /\ \E t \in 0..now :
            serving_config = create_model_serving_config(experiment_id, registry_info, t).value
  /\ DeployCalled => serving_config # NoneVal
  /\ deployment_result # NoneVal =>
       /\ DeployCalled
       /\ deployment_result
            = deploy_to_serving_infrastructure(serving_config, deployResponse,
                                               jsonErrorCaught).value
  /\ pc \in {"synthesize", "deploy"} =>
       (healthGets = <<>> /\ test_results = NoneVal /\ summaryDoc = NoneVal)
  /\ test_results # NoneVal =>
       /\ deployment_result # NoneVal
       /\ Len(healthGets) = (IF skip_tests THEN 0 ELSE Len(health_targets(deployment_result)))
       /\ \A i \in 1..Len(healthGets) :
            healthGets[i].url = health_targets(deployment_result)[i].health_endpoint
  /\ pc = "tests" => summaryDoc = NoneVal
  /\ summaryDoc # NoneVal =>
       /\ test_results # NoneVal
       /\ summaryDoc = JsonObject(deployment_summary)
       /\ deployment_summary.experiment_id = experiment_id
       /\ deployment_summary.deployment_result = deployment_result
       /\ deployment_summary.test_results = test_results

\* A run that went through every stage, health checks included
C21_Witness ==
  /\ pc = "done"
  /\ exitCode = 0
  /\ ~skip_tests
  /\ healthGets # <<>>
  /\ summaryDoc # NoneVal

\* C22: no network call is repeated: a run issues the registry POST at most once, the
\* deploy POST at most once and at most one health GET for each endpoint of the
\* deployment result; a registry POST or deploy POST that failed is followed by its
\* fallback.
C22_NoRetry ==
  /\ regPosts <= 1
  /\ deployPosts <= 1
  /\ healthGets # <<>> =>
       /\ Len(healthGets) <= Len(deployment_result.endpoints)
       /\ \A i \in 1..Len(healthGets), j \in 1..Len(healthGets) :
            healthGets[i].url = healthGets[j].url => i = j
  /\ (RegisterCalled /\ IsFailure(regResponse) /\ ~RegisterRaised) =>
       (registry_info = Candidate /\ registryDoc = Candidate)
  /\ (DeployCalled /\ IsFailure(deployResponse)) =>
       (/\ deployment_result # NoneVal
        /\ deployment_result.status = "configuration_ready"
        /\ "manual_deployment" \in DOMAIN deployment_result)

\* A run whose registry POST, deploy POST and a health GET were each answered by a
\* failure
C22_Witness ==
  /\ pc = "done"
  /\ IsFailure(regResponse)
  /\ regPosts = 1
  /\ deployPosts = 1
  /\ \E i \in 1..Len(healthGets) : IsFailure(healthGets[i].response)

\* A run whose registry POST and deploy POST both failed
C22_WitnessFallbacks ==
  /\ pc = "done"
  /\ exitCode = 0
  /\ IsFailure(regResponse)
  /\ IsFailure(deployResponse)

\* the report's tests after the two loading tests
HealthTests == SubSeq(test_results.tests, 3, Len(test_results.tests))

\* C23: the harness runs after Deploy whatever the deployment status (unless skipped)
\* and sends health GETs only when the status is 'deployed': with 'configuration_ready'
\* no GET is sent and the report has no endpoint-health test; with 'deployed' the report
\* has one endpoint-health test per endpoint of the deployment result, in order, passed
\* iff the GET was answered with HTTP 200 and failed on any other answer or on a
\* connection error.
C23_HealthOnlyWhenDeployed ==
  (test_results # NoneVal /\ ~skip_tests) =>
    /\ "tests" \in DOMAIN test_results
    /\ Len(test_results.tests) >= 2
    /\ test_results.tests[1].test = "model_loading"
    /\ test_results.tests[2].test = "preprocessor_loading"
    /\ IF deployment_result.status = "deployed"
         THEN /\ Len(healthGets) = Len(deployment_result.endpoints)
              /\ Len(HealthTests) = Len(deployment_result.endpoints)
              /\ \A i \in 1..Len(deployment_result.endpoints) :
                   /\ healthGets[i].url = deployment_result.endpoints[i].health_endpoint
                   /\ HealthTests[i].test
                        = "endpoint_health_" \o deployment_result.endpoints[i].model
                   /\ HealthTests[i].status \in {"passed", "failed"}
                   /\ HealthTests[i].status = "passed" <=> IsHttp200(healthGets[i].response)
         ELSE /\ deployment_result.status = "configuration_ready"
              /\ healthGets = <<>>
              /\ HealthTests = <<>>

\* A harness run on a deployed result with a health GET answered 200 and one not
C23_Witness ==
  /\ test_results # NoneVal
  /\ ~skip_tests
  /\ deployment_result.status = "deployed"
  /\ \E i \in 1..Len(healthGets) : IsHttp200(healthGets[i].response)
  /\ \E i \in 1..Len(healthGets) : IsFailure(healthGets[i].response)

\* A harness run on a result with status configuration_ready that lists endpoints
C23_WitnessConfigurationReady ==
  /\ test_results # NoneVal
  /\ ~skip_tests
  /\ deployment_result.status = "configuration_ready"
  /\ deployment_result.endpoints # <<>>
  /\ Len(test_results.tests) = 2

\* C24: the reloadability tests of a run load the model blob and the preprocessor blob
\* of the experiment being deployed; each passes iff the load succeeds and yields a
\* non-empty collection, and a missing file, a failed load or an empty collection gives
\* a failed test.
C24_ReloadabilityOfDeployedExperiment ==
  (test_results # NoneVal /\ ~skip_tests) =>
    /\ "models.joblib" \in expFiles =>
         test_results.tests[1].details # "Model file not found"
    /\ test_results.tests[1].status = "passed" =>
         test_results.tests[1].details # "Successfully loaded 0 models"
    /\ PreprocessorsFile \notin modelFiles => test_results.tests[2].status = "failed"

\* The part of C24 on empty collections alone: a blob that holds no model does not
\* pass the model-loading test.
C24_EmptyBlobFails ==
  (test_results # NoneVal /\ ~skip_tests) =>
    test_results.tests[1].details # "Successfully loaded 0 models"

\* The part of C24 on the experiment alone: the model-loading test finds the blob of
\* the experiment being deployed.
C24_OwnBlobFound ==
  (test_results # NoneVal /\ ~skip_tests /\ "models.joblib" \in expFiles) =>
    test_results.tests[1].details # "Model file not found"

\* position of a name in the catalog
CatalogIndex(name) == CHOOSE i \in 1..Len(model_names) : model_names[i] = name

\* C25: the candidate entry Register builds lists exactly the catalog models whose
\* artifact file is on disk, in catalog order and once each; each listed model carries
\* the metrics stored under its name in the experiment's evaluation results, or the
\* empty set when there are none; the preprocessor reference is present iff the
\* preprocessor artifact is on disk.
C25_CandidateEntry ==
  registryDoc # NoneVal =>
    LET entry == registryDoc.obj
        results == IF "evaluation_results" \in DOMAIN metadata
                     THEN metadata.evaluation_results ELSE EmptyDict
    IN  /\ entry.experiment_id = experiment_id
        /\ {entry.models[i].name : i \in 1..Len(entry.models)}
             = {n \in Range(model_names) : ModelFile(n) \in modelFiles}
        /\ \A i \in 1..Len(entry.models), j \in 1..Len(entry.models) :
             i < j => CatalogIndex(entry.models[i].name) < CatalogIndex(entry.models[j].name)
        /\ \A i \in 1..Len(entry.models) :
             /\ entry.models[i].file_path = ModelsDir \o ModelFile(entry.models[i].name)
             /\ entry.models[i].performance_metrics
                  = (IF entry.models[i].name \in DOMAIN results
                       THEN results[entry.models[i].name] ELSE EmptyDict)
        /\ "preprocessors" \in DOMAIN entry <=> PreprocessorsFile \in modelFiles

\* A candidate with two of the five catalog models, one of them without metrics, and
\* the preprocessor reference, from a directory that also holds a model outside the
\* catalog
C25_Witness ==
  /\ registryDoc # NoneVal
  /\ Len(registryDoc.obj.models) = 2
  /\ \E i \in 1..2 : registryDoc.obj.models[i].performance_metrics = EmptyDict
  /\ \E i \in 1..2 : registryDoc.obj.models[i].performance_metrics # EmptyDict
  /\ "preprocessors" \in DOMAIN registryDoc.obj
  /\ \E f \in modelFiles : f = ModelFile("custom_model")

\* A candidate of an experiment whose metadata holds no evaluation results
C25_WitnessNoResults ==
  /\ registryDoc # NoneVal
  /\ "evaluation_results" \notin DOMAIN metadata
  /\ Len(registryDoc.obj.models) >= 1

----------------------------------------------------------------------------
(* Properties of the engine's evaluations, checked under SpecEvaluation *)

\* The binary value of one raw output of the anomaly detector: -1 (anomaly) is 1,
\* +1 (normal) is 0
AnomalyBit(raw) == IF raw = -1 THEN 1 ELSE 0

\* The anomaly detector is loaded and answers
AnomalyAnswers ==
  /\ "anomaly_detector" \in DOMAIN self_models
  /\ ~self_models["anomaly_detector"].fails

\* The anomaly detector's binary value on sample i
AnomalyMapped(i) == AnomalyBit(self_models["anomaly_detector"].predict[i])

\* The vote of model x on sample i
VoteOf(x, i) ==
  IF x = "anomaly_detector" THEN AnomalyMapped(i) ELSE self_models[x].predict[i]

\* The score of model x on sample i in the weighted average, in tenths
ScoreOf(x, i) ==
  IF x = "anomaly_detector" THEN 10 * AnomalyMapped(i)
  ELSE IF self_models[x].has_proba THEN self_models[x].proba[i]
  ELSE 10 * self_models[x].predict[i]

\* C26: wherever the anomaly detector's raw output enters a combination it is first
\* mapped to {0, 1}, -1 to 1 and +1 to 0: the majority vote counts the mapped value,
\* the weighted average weighs the mapped value and not a predict_proba output, and
\* the per-model and the per-batch accuracy compare the mapped value with the labels.
C26_AnomalyMapped ==
  AnomalyAnswers =>
    /\ (ensemble_out.strategy = "majority_vote" /\ ensemble_out.status = "success") =>
         \A i \in 1..n_samples :
           LET votes == SumOver(DOMAIN self_models,
                                [x \in DOMAIN self_models |-> VoteOf(x, i)])
               k == Cardinality(DOMAIN self_models)
           IN  /\ ensemble_out.pred[i] \in {0, 1}
               /\ 2 * votes > k => ensemble_out.pred[i] = 1
               /\ 2 * votes < k => ensemble_out.pred[i] = 0
    /\ (ensemble_out.strategy = "weighted_average" /\ ensemble_out.status = "success") =>
         \A i \in 1..n_samples :
           LET p == ensemble_out.prob.val[i]
           IN  /\ p.num = SumOver(Active, [x \in Active |-> weight_of(x) * ScoreOf(x, i)])
               /\ p.den = 10 * ActiveWeight
               /\ ensemble_out.pred[i] = IF 2 * p.num > p.den THEN 1 ELSE 0
    /\ eval_out.kind = "individual" =>
         LET r == eval_out.results["anomaly_detector"]
         IN  /\ r.status = "success"
             /\ r.accuracy.num = Cardinality({i \in 1..n_samples :
                                                AnomalyMapped(i) = eval_out.y_test[i]})
             /\ r.accuracy.den = n_samples
    /\ eval_out.kind = "load" =>
         \A b \in DOMAIN eval_out.results :
           LET r == eval_out.results[b]["anomaly_detector"]
               at == eval_out.indices[b]
           IN  /\ r.accuracy.num = Cardinality({j \in 1..b :
                                     AnomalyMapped(at[j]) = eval_out.y_test[at[j]]})
               /\ r.accuracy.den = b

\* The weighted average over an anomaly detector that has predict_proba and finds the
\* sample normal with probability 0.9: its score is 0
C26_Witness ==
  /\ ensemble_out.strategy = "weighted_average"
  /\ ensemble_out.status = "success"
  /\ DOMAIN self_models = {"anomaly_detector"}
  /\ self_models["anomaly_detector"].has_proba
  /\ self_models["anomaly_detector"].predict[1] = 1
  /\ self_models["anomaly_detector"].proba[1] = 9
  /\ ensemble_out.prob.val[1].num = 0
  /\ ensemble_out.pred[1] = 0

\* The majority vote over the anomaly detector's -1 and a classifier's 1
C26_WitnessVote ==
  /\ ensemble_out.strategy = "majority_vote"
  /\ ensemble_out.status = "success"
  /\ DOMAIN self_models = {"anomaly_detector", "ensemble_rf"}
  /\ self_models["anomaly_detector"].predict[1] = -1
  /\ self_models["ensemble_rf"].predict[1] = 1
  /\ ensemble_out.pred[1] = 1

\* The per-model test of an anomaly detector that answers -1 on a threat
C26_WitnessIndividual ==
  /\ eval_out.kind = "individual"
  /\ AnomalyAnswers
  /\ self_models["anomaly_detector"].predict[1] = -1
  /\ eval_out.y_test[1] = 1
  /\ eval_out.results["anomaly_detector"].accuracy.num = 1

\* The load test of an anomaly detector that answers +1 on a harmless sample
C26_WitnessLoad ==
  /\ eval_out.kind = "load"
  /\ AnomalyAnswers
  /\ 1 \in DOMAIN eval_out.results
  /\ self_models["anomaly_detector"].predict[eval_out.indices[1][1]] = 1
  /\ eval_out.y_test[eval_out.indices[1][1]] = 0
  /\ eval_out.results[1]["anomaly_detector"].accuracy.num = 1

----------------------------------------------------------------------------
(* Properties of two runs writing in one experiment directory, checked under
   SpecWriters *)

\* Both runs have written the file f and closed it
BothWrote(f) ==
  \A k \in AttemptIds : attempts[k].file = f /\ attempts[k].pc = "done"

\* C27: when two runs on the same experiment have both finished, the deployment summary
\* file holds exactly the complete summary of one of the two runs, never a mix of the
\* two, and so does the local registry document.
C27_LastWriterWins ==
  \A f \in {SummaryFile, RegistryFile} :
    BothWrote(f) => \E k \in AttemptIds : dirFiles[f] = attempts[k].text

\* What C27 leaves of the property when the two texts have the same length
C27_SameLengthLastWriterWins ==
  \A f \in {SummaryFile, RegistryFile} :
    (BothWrote(f) /\ Len(attempts[1].text) = Len(attempts[2].text)) =>
      \E k \in AttemptIds : dirFiles[f] = attempts[k].text

\* Two runs have written summaries of different lengths
C27_WitnessDifferentSummaries ==
  /\ BothWrote(SummaryFile)
  /\ Len(attempts[1].text) # Len(attempts[2].text)
  /\ dirFiles[SummaryFile] = attempts[2].text

----------------------------------------------------------------------------
(* Properties of what one run hands from stage to stage, checked under Spec *)

\* C28: each entity is handed on unchanged: once a stage has produced the metadata, the
\* registry entry, the local registry document, the serving configuration, the
\* deployment result or the test report, no later step of the run changes it, and the
\* summary holds the deployment result and the test report as they were returned.
C28_HandedOnUnchanged ==
  [][/\ metadata # NoneVal => metadata' = metadata
     /\ registry_info # NoneVal => registry_info' = registry_info
     /\ registryDoc # NoneVal => registryDoc' = registryDoc
     /\ serving_config # NoneVal => serving_config' = serving_config
     /\ deployment_result # NoneVal => deployment_result' = deployment_result
     /\ test_results # NoneVal => test_results' = test_results
     /\ summaryDoc' # NoneVal =>
          /\ summaryDoc'.obj.deployment_result = deployment_result'
          /\ summaryDoc'.obj.test_results = test_results'
          /\ deployment_summary' = summaryDoc'.obj]_vars

\* A finished run whose summary holds the manual-deployment result Deploy returned
C28_Witness ==
  /\ pc = "done"
  /\ exitCode = 0
  /\ registry_info # NoneVal
  /\ serving_config # NoneVal
  /\ deployment_result # NoneVal
  /\ "manual_deployment" \in DOMAIN deployment_result
  /\ deployment_result.status = "configuration_ready"
  /\ deployment_result.manual_deployment.config_file = serving_config
  /\ summaryDoc # NoneVal
  /\ summaryDoc.obj.deployment_result = deployment_result
  /\ summaryDoc.obj.status = "ready_for_deployment"

\* C29: the summary's status is 'deployed' exactly when the deployment result's status
\* is 'deployed' and 'ready_for_deployment' otherwise; next_steps is not empty and is
\* the list of monitoring steps for 'deployed', the list of set-up steps otherwise.
C29_SummaryStatus ==
  summaryDoc # NoneVal =>
    LET summary == summaryDoc.obj
    IN  /\ summary.status \in {"deployed", "ready_for_deployment"}
        /\ summary.status = "deployed" <=> deployment_result.status = "deployed"
        /\ Len(summary.next_steps) > 0
        /\ summary.status = "deployed" =>
             /\ summary.next_steps[1] = "Monitor model performance via MLOps dashboard"
             /\ \A i \in 1..Len(summary.next_steps) :
                  summary.next_steps[i] # "Set up MLOps serving infrastructure"
        /\ summary.status = "ready_for_deployment" =>
             /\ summary.next_steps[1] = "Set up MLOps serving infrastructure"
             /\ summary.next_steps[2] = "Deploy models using provided configuration"

\* The summary of a run whose deploy POST was accepted
C29_Witness ==
  /\ summaryDoc # NoneVal
  /\ deployment_result.status = "deployed"
  /\ summaryDoc.obj.status = "deployed"
  /\ Len(summaryDoc.obj.next_steps) = 4

\* The summary of a run that fell back to manual deployment
C29_WitnessManual ==
  /\ summaryDoc # NoneVal
  /\ deployment_result.status = "configuration_ready"
  /\ summaryDoc.obj.status = "ready_for_deployment"
  /\ Len(summaryDoc.obj.next_steps) = 4

----------------------------------------------------------------------------
(* Properties of the weighted average's weights, checked under SpecWeighted *)

\* The weight the table of C30 gives a model name, in tenths
TableWeight(x) ==
  CASE x = "signature_detector" -> 3
    [] x = "anomaly_detector" -> 2
    [] x = "ensemble_rf" -> 5
    [] x \in {"ensemble_lr", "ensemble_svm"} -> 0
    [] OTHER -> 1

\* The loaded models that take part in the weighted average
TakingPart == {x \in DOMAIN self_models : TableWeight(x) # 0}

\* C30: in weighted average a loaded model takes part iff its weight is not zero, the
\* weights being 0.3, 0.2 and 0.5 for signature_detector, anomaly_detector and
\* ensemble_rf, 0 for ensemble_lr and ensemble_svm and 0.1 for any other name; a model
\* of weight zero is never invoked; the all-negative result without probabilities
\* occurs exactly when every loaded model is ensemble_lr or ensemble_svm or no model is
\* loaded.
C30_WeightsDecideTakingPart ==
  ensemble_out.strategy = "weighted_average" =>
    /\ ensemble_out.status = "error" <=> \E x \in TakingPart : self_models[x].fails
    /\ ensemble_out.status = "success" =>
         /\ ensemble_out.prob = NoneVal <=>
              DOMAIN self_models \subseteq {"ensemble_lr", "ensemble_svm"}
         /\ ensemble_out.prob = NoneVal => ensemble_out.pred = Zeros(n_samples)
         /\ ensemble_out.prob # NoneVal =>
              \A i \in 1..n_samples :
                LET p == ensemble_out.prob.val[i]
                IN  /\ p.den = 10 * SumOver(TakingPart,
                                            [x \in TakingPart |-> TableWeight(x)])
                    /\ p.num = SumOver(TakingPart,
                                       [x \in TakingPart |->
                                          TableWeight(x) * ScoreOf(x, i)])

\* The weighted average over a model the table does not name and two models of weight
\* zero whose predict raises
C30_Witness ==
  /\ ensemble_out.strategy = "weighted_average"
  /\ ensemble_out.status = "success"
  /\ DOMAIN self_models = {"custom_a", "ensemble_lr", "ensemble_svm"}
  /\ self_models["ensemble_lr"].fails
  /\ self_models["ensemble_svm"].fails
  /\ ensemble_out.prob # NoneVal
  /\ ensemble_out.prob.val[1].den = 10

\* The weighted average over ensemble_lr and ensemble_svm alone
C30_WitnessZeroWeights ==
  /\ ensemble_out.strategy = "weighted_average"
  /\ ensemble_out.status = "success"
  /\ DOMAIN self_models = {"ensemble_lr", "ensemble_svm"}
  /\ ensemble_out.prob = NoneVal
  /\ ensemble_out.pred = Zeros(n_samples)

====
